---- MODULE Spec2Model ----
(***************************************************************************)
(* A model of the Agora RTC web client: the AgoraClient session class      *)
(* (lib/agora-config.ts), its token helpers (lib/agora-utils.ts) and the   *)
(* useAgoraAudience React hook (hooks/useAgoraAudience.ts), the            *)
(* query-string video page that joins automatically through the hook, the  *)
(* App ID check of the home page, the /api/agora/token route handlers and  *)
(* the placement of remote video by the user-published handler, with the   *)
(* user-unpublished and user-left handlers that clear it.                  *)
(*                                                                         *)
(* Strings that the code inspects (appId, channel, token) are sequences of *)
(* one-character strings, so trim() and the regular expressions are        *)
(* computed character by character.  Error messages are TLA+ strings.      *)
(***************************************************************************)
EXTENDS Naturals, Integers, Sequences, FiniteSets, TLC

\* ------------------------------------------------------------------ bounds
MaxClients == 2   \* AgoraClient objects the hook may construct
MaxOps     == 3   \* joinAs*/leave invocations on one AgoraClient object
MaxNow     == 2   \* seconds the token endpoint's clock may advance
MaxPad     == 1   \* white space characters on either side of a typed App ID
MaxEdits   == 1   \* characters typed into the App ID field after that
MaxUsers   == 1   \* remote users of the channel
MaxPublishes == 2 \* user-published events delivered to the client

Clients == 1..MaxClients
Uids    == 1..MaxUsers

\* ------------------------------------------------------- program constants
AppIdLen    == 32   \* /^[a-f0-9]{32}$/i
TokenMinLen == 50   \* token.length > 50

\* ----------------------------------------------------------------- strings
Rep(ch, n) == [i \in 1..n |-> ch]

HexChars == {"0", "1", "2", "3", "4", "5", "6", "7", "8", "9",
             "a", "b", "c", "d", "e", "f", "A", "B", "C", "D", "E", "F"}

WhiteSpace == {" ", "\t", "\n"}

RECURSIVE TrimStart(_)
TrimStart(s) ==
    IF s # <<>> /\ Head(s) \in WhiteSpace THEN TrimStart(Tail(s)) ELSE s

RECURSIVE TrimEnd(_)
TrimEnd(s) ==
    IF s # <<>> /\ s[Len(s)] \in WhiteSpace
    THEN TrimEnd(SubSeq(s, 1, Len(s) - 1)) ELSE s

\* String.prototype.trim
Trim(s) == TrimEnd(TrimStart(s))

\* /^[a-f0-9]{32}$/i .test(s)
appIdPattern(s) ==
    /\ Len(s) = AppIdLen
    /\ \A i \in 1..Len(s) : s[i] \in HexChars

\* /^00[67]/ .test(s)
versionPattern(s) ==
    /\ Len(s) >= 3
    /\ s[1] = "0"
    /\ s[2] = "0"
    /\ s[3] \in {"6", "7"}

\* validateAgoraToken(token)
validateAgoraToken(token) ==
    IF token = <<>> THEN FALSE
    ELSE IF ~versionPattern(token) THEN FALSE
    ELSE Len(token) > TokenMinLen

\* ------------------------------------------------------------------ inputs
Hex32   == Rep("a", AppIdLen)
HexMix  == Rep("A", 16) \o Rep("9", AppIdLen - 16)

AppIds == { <<>>,                              \* empty
            <<" ", " ">>,                      \* blank
            Rep("a", AppIdLen - 1),            \* 31 hex characters
            Rep("a", AppIdLen - 1) \o <<"g">>, \* 32 characters, one not hex
            Hex32,
            <<" ">> \o HexMix \o <<" ">> }     \* valid once trimmed

Channels == { <<>>, <<" ">>, <<"d", "e", "m", "o">> }

Tok007 == <<"0", "0", "7">> \o Rep("x", 60)
TokBad == <<"b", "a", "d">>
T1     == <<"T", "1">>

\* config.token: <<>> stands for an absent (undefined or empty) token
SuppliedTokens == { <<>>, Tok007, TokBad }

\* config.appCertificate: <<>> stands for an absent certificate
Certificates == { <<>>, <<"c", "e", "r", "t">> }

\* a token string found in an endpoint response; <<>> when the field is missing
ResponseTokens == { <<>>, T1 }

\* config.uid || 0 of a config that names no uid
NoUid == 0

NoConfig == [appId |-> <<>>, channel |-> <<>>, token |-> <<>>,
             appCertificate |-> <<>>, uid |-> NoUid, made |-> FALSE]

Configs == [appId : AppIds, channel : Channels, token : SuppliedTokens,
            appCertificate : Certificates, uid : {NoUid}, made : {TRUE}]

\* ---------------------------------------------------------- error messages
MsgAppIdRequired  == "App ID is required and cannot be empty"
MsgChannelRequired == "Channel name is required and cannot be empty"
MsgAppIdFormat    == "Invalid App ID format. App ID should be a 32-character hexadecimal string."
MsgInitFailed     == "Failed to initialize Agora client"
MsgTokenFailed    == "Token generation failed. Please check your App Certificate or server configuration."
MsgNoMethod       == "No token generation method available. Please provide App Certificate."
MsgGateway        == "Invalid App ID or network connection issue. Please verify your App ID is correct."
MsgInvalidToken   == "Invalid token. Please check your token or generate a new one."
MsgTokenExpired   == "Token has expired. Please generate a new token."
MsgVendorKey      == "Invalid App ID. Please check your App ID from Agora Console."
MsgJoinPrefix     == "Failed to join channel: "
MsgFetch          == "Failed to fetch"
MsgHttp           == "HTTP 500"
MsgServerCode     == "Token generation failed"
MsgNoData         == "Cannot read properties of undefined (reading 'token')"
MsgVendorCode     == "Generate token error, please check your appid and appcertificate parameters"
MsgUnknown        == "Unknown error"

\* an error object: code and message are "" when the property is missing
Err(code, message) == [code |-> code, message |-> message]

\* errors the engine's join may reject with
EngineJoinErrors == { Err("CAN_NOT_GET_GATEWAY_SERVER", "gateway"),
                      Err("INVALID_TOKEN", "invalid token"),
                      Err("TOKEN_EXPIRED", "expired"),
                      Err("INVALID_VENDOR_KEY", "vendor key"),
                      Err("DYNAMIC_KEY_TIMEOUT", "key timeout"),
                      Err("UID_CONFLICT", "uid conflict"),
                      Err("OPERATION_ABORTED", ""),
                      Err("", "") }

\* errors of track creation, publish, track teardown and engine leave
ErrMic     == Err("PERMISSION_DENIED", "microphone denied")
ErrCam     == Err("DEVICE_NOT_FOUND", "camera not found")
ErrPublish == Err("", "publish failed")
ErrTrack   == Err("", "track teardown failed")
ErrLeave   == Err("", "leave failed")

\* the catch block of join() without its DYNAMIC_KEY_TIMEOUT branch
JoinCatchNoTimeout(e) ==
    IF e.code = "CAN_NOT_GET_GATEWAY_SERVER" THEN MsgGateway
    ELSE IF e.code = "INVALID_TOKEN" THEN MsgInvalidToken
    ELSE IF e.code = "TOKEN_EXPIRED" THEN MsgTokenExpired
    ELSE IF e.code = "INVALID_VENDOR_KEY" THEN MsgVendorKey
    ELSE MsgJoinPrefix \o
         (IF e.message # "" THEN e.message
          ELSE IF e.code # "" THEN e.code ELSE MsgUnknown)

\* the catch block of join(): the message of the Error it throws
JoinCatch(e) ==
    IF e.code = "CAN_NOT_GET_GATEWAY_SERVER" THEN MsgGateway
    ELSE IF e.code = "INVALID_TOKEN" THEN MsgInvalidToken
    ELSE IF e.code = "TOKEN_EXPIRED" THEN MsgTokenExpired
    ELSE IF e.code = "INVALID_VENDOR_KEY" THEN MsgVendorKey
    ELSE IF e.code = "DYNAMIC_KEY_TIMEOUT" THEN MsgTokenExpired
    ELSE MsgJoinPrefix \o
         (IF e.message # "" THEN e.message
          ELSE IF e.code # "" THEN e.code ELSE MsgUnknown)

\* ------------------------------------------------------------------- state
VARIABLES
    env,      \* the page (window, URL parameters, local storage) and network
    agora,    \* agora[c]: the fields of AgoraClient object c
    run,      \* run[c]: where the calls made on object c stand, and the
              \* requests its current or last generateToken() has sent
    engine,   \* engine[c]: the RTC engine and the network as seen by object c
    channel,  \* the RTC channel: who else is in it, whether it can be reached
    props,    \* the props of useAgoraAudience
    hook,     \* the hook's React state, as last set
    rendered, \* the state values the callbacks of the last render closed over
    mounted,  \* the component using the hook is mounted
    interval, \* interval[c]: the setInterval stored on object c is scheduled
    left,     \* a leaveChannel call has resolved and joinChannel has not run since
    page,     \* the video page: its URL, its state and its pending timeouts
    stage,    \* the DOM's render slots and the user-published handlers running
    form,     \* the home page: the text of its App ID field, the validity shown
    api       \* the token endpoint: its clock, the request it last handled
              \* and when, the calls of the signing primitive that made, its
              \* response

clientVars == <<env, agora, run, engine, channel>>
hookVars == <<props, hook, rendered, mounted, interval, left>>
mainVars == <<env, agora, run, engine, channel, props, hook, rendered,
             mounted, interval, left, page>>
sideVars == <<api, form, stage>>
vars == <<env, agora, run, engine, channel, props, hook, rendered, mounted,
          interval, left, page, api, form, stage>>

Envs == [window : BOOLEAN,        \* typeof window !== 'undefined'
         urlEncrypted : BOOLEAN,  \* encryptedId and encryptedSecret in the URL
         localCert : BOOLEAN]     \* getOptionsFromLocal().certificate non-empty

NoCalls == [createClient |-> 0, get |-> 0, post |-> 0, vendor |-> 0,
            join |-> 0, leave |-> 0, mic |-> 0, cam |-> 0, publish |-> 0,
            trackOps |-> 0]

Outcome(status, message) == [status |-> status, message |-> message]

\* the promise a call of generateToken() returned
TokenOutcome(status, token, message) ==
    [status |-> status, token |-> token, message |-> message]

\* new AgoraClient(config)
NewAgora(config) ==
    [config |-> config, client |-> "null", localVideoTrack |-> "null",
     localAudioTrack |-> "null", isPublisher |-> FALSE]

\* the TokenConfig object generateToken() hands to agoraGetAppData
TokenConfig(uid, channelName, appid) ==
    [uid |-> uid, channel |-> channelName, appid |-> appid]

NewRun ==
    [pc |-> "idle", joinOutcome |-> Outcome("none", ""),
     leaveOutcome |-> Outcome("none", ""), leaveInFlight |-> 0,
     tokenOutcome |-> TokenOutcome("none", <<>>, ""),
     tokenConfig |-> TokenConfig(NoUid, <<>>, <<>>),
     requests |-> <<>>, warned |-> FALSE,
     caller |-> "none", log |-> <<>>]

NewEngine ==
    [connectionState |-> "DISCONNECTED",
     joinArgs |-> [appId |-> <<>>, channel |-> <<>>, token |-> <<>>],
     videoTrackObj |-> "none", audioTrackObj |-> "none",
     joinError |-> <<>>,
     calls |-> NoCalls]

Inst(c) == [a |-> agora[c], r |-> run[c], e |-> engine[c]]

Put(c, s) ==
    /\ agora' = [agora EXCEPT ![c] = s.a]
    /\ run' = [run EXCEPT ![c] = s.r]
    /\ engine' = [engine EXCEPT ![c] = s.e]

\* the calls made on object c so far, in order
Ops(c) == Len(run[c].log)

\* ------------------------------------------------------ AgoraClient.join
\* join() validating without its App ID format check
ValidationNoFormat(config) ==
    IF config.appId = <<>> \/ Trim(config.appId) = <<>> THEN MsgAppIdRequired
    ELSE IF config.channel = <<>> \/ Trim(config.channel) = <<>>
         THEN MsgChannelRequired
    ELSE ""

\* join() validating the App ID format before the channel
ValidationFormatFirst(config) ==
    IF config.appId = <<>> \/ Trim(config.appId) = <<>> THEN MsgAppIdRequired
    ELSE IF ~appIdPattern(Trim(config.appId)) THEN MsgAppIdFormat
    ELSE IF config.channel = <<>> \/ Trim(config.channel) = <<>>
         THEN MsgChannelRequired
    ELSE ""

\* the three validation checks at the head of join(); "" when all pass
ValidationError(config) ==
    IF config.appId = <<>> \/ Trim(config.appId) = <<>> THEN MsgAppIdRequired
    ELSE IF config.channel = <<>> \/ Trim(config.channel) = <<>>
         THEN MsgChannelRequired
    ELSE IF ~appIdPattern(Trim(config.appId)) THEN MsgAppIdFormat
    ELSE ""

\* the promise returned by joinAsAudience/joinAsPublisher settles
Reject(s, msg) ==
    [s EXCEPT !.r.pc = "idle", !.r.joinOutcome = Outcome("rejected", msg)]

Resolve(s) ==
    [s EXCEPT !.r.pc = "idle", !.r.joinOutcome = Outcome("resolved", "")]

\* an error thrown inside join()'s try block goes through its catch block
Caught(s, e) == Reject(s, JoinCatch(e))

\* this.client.join(appId.trim(), channel.trim(), token, uid || null)
EngineJoinCall(s, token) ==
    [s EXCEPT !.r.pc = "engineJoin",
              !.e.calls.join = @ + 1,
              !.e.joinArgs = [appId |-> Trim(s.a.config.appId),
                              channel |-> Trim(s.a.config.channel),
                              token |-> token]]

\* generateToken() failed inside join(): wrapped, then caught by join's catch
TokenFailed(s) == Caught(s, Err("", MsgTokenFailed))

\* generateToken() returns token: to join() when join() awaits it, else to
\* the caller of generateToken()
TokenReady(s, token) ==
    IF s.r.joinOutcome.status = "pending" THEN EngineJoinCall(s, token)
    ELSE [s EXCEPT !.r.pc = "idle",
                   !.r.tokenOutcome = TokenOutcome("resolved", token, "")]

\* generateToken() throws an Error with message msg
TokenThrown(s, msg) ==
    IF s.r.joinOutcome.status = "pending" THEN TokenFailed(s)
    ELSE [s EXCEPT !.r.pc = "idle",
                   !.r.tokenOutcome = TokenOutcome("rejected", <<>>, msg)]

\* getEncryptFromUrl(): both encryptedId and encryptedSecret were found
getEncryptFromUrl(e) == e.window /\ e.urlEncrypted

\* getOptionsFromLocal().certificate is a non-empty string
getOptionsFromLocal(e) == e.localCert

\* generateToken() trying the POST endpoint first
GenerateTokenPostFirst(s, e) ==
    IF s.a.config.appCertificate # <<>>
    THEN [s EXCEPT !.r.pc = "tokPOST", !.e.calls.post = @ + 1,
                   !.r.requests = <<"POST">>]
    ELSE LET s1 == [s EXCEPT !.r.tokenConfig =
                        TokenConfig(s.a.config.uid, s.a.config.channel,
                                    s.a.config.appId),
                             !.r.requests = <<>>]
         IN  IF getEncryptFromUrl(e) \/ getOptionsFromLocal(e)
             THEN [s1 EXCEPT !.r.pc = "tokVendor", !.e.calls.vendor = @ + 1,
                             !.r.requests = <<"vendor">>]
             ELSE TokenThrown(s1, MsgNoMethod)

\* generateToken() up to its first request
GenerateTokenStart(s, e) ==
    IF s.a.config.appCertificate # <<>>
    THEN \* generateTokenFromServer: GET /api/agora/token?...
         [s EXCEPT !.r.pc = "tokGET", !.e.calls.get = @ + 1,
                   !.r.requests = <<"GET">>]
    ELSE \* agoraGetAppData({uid, channel, appid: this.config.appId})
         LET s1 == [s EXCEPT !.r.tokenConfig =
                        TokenConfig(s.a.config.uid, s.a.config.channel,
                                    s.a.config.appId),
                             !.r.requests = <<>>]
         IN  IF getEncryptFromUrl(e) \/ getOptionsFromLocal(e)
             THEN [s1 EXCEPT !.r.pc = "tokVendor", !.e.calls.vendor = @ + 1,
                             !.r.requests = <<"vendor">>]
             ELSE \* returns null: 'No token generation method available'
                  TokenThrown(s1, MsgNoMethod)

\* initClient()
initClient(s, e) ==
    IF ~e.window THEN s
    ELSE [s EXCEPT !.a.client = "client", !.e.calls.createClient = @ + 1]

\* the token given in the config does not look like a token
BadTokenGiven(config) ==
    config.token # <<>> /\ ~validateAgoraToken(config.token)

\* join(role) refusing a given token that does not look like one
JoinTokenChecked(s0, role, e) ==
    LET s1 == [s0 EXCEPT !.a.isPublisher = (role = "publisher"),
                         !.r.log = Append(@, "join"),
                         !.r.joinOutcome = Outcome("pending", ""),
                         !.r.warned = FALSE,
                         !.e.joinError = <<>>]
        verr == ValidationError(s1.a.config)
        s2 == IF s1.a.client = "null" THEN initClient(s1, e) ELSE s1
    IN  IF verr # "" THEN Reject(s1, verr)
        ELSE IF BadTokenGiven(s1.a.config) THEN Reject(s1, MsgInvalidToken)
        ELSE IF s2.a.client = "null" THEN Reject(s2, MsgInitFailed)
        ELSE IF s2.a.config.token # <<>>
             THEN EngineJoinCall(s2, s2.a.config.token)
             ELSE GenerateTokenStart(s2, e)

\* join(role) after joinAsAudience/joinAsPublisher set the publisher flag
Join(s0, role, e) ==
    LET s1 == [s0 EXCEPT !.a.isPublisher = (role = "publisher"),
                         !.r.log = Append(@, "join"),
                         !.r.joinOutcome = Outcome("pending", ""),
                         !.r.warned = FALSE,
                         !.e.joinError = <<>>]
        verr == ValidationError(s1.a.config)
        \* console.warn('Provided token appears to be invalid')
        sw == [s1 EXCEPT !.r.warned = BadTokenGiven(s1.a.config)]
        s2 == IF sw.a.client = "null" THEN initClient(sw, e) ELSE sw
    IN  IF verr # "" THEN Reject(s1, verr)
        ELSE IF s2.a.client = "null" THEN Reject(s2, MsgInitFailed)
        ELSE IF s2.a.config.token # <<>>
             THEN EngineJoinCall(s2, s2.a.config.token)
             ELSE GenerateTokenStart(s2, e)

\* ------------------------------------------------------- token endpoints
\* what a fetch of a token endpoint can come back with
Resp(kind, token) == [kind |-> kind, token |-> token]

ServerResponses ==    \* GET /api/agora/token
    { Resp(k, <<>>) : k \in {"neterr", "notok", "code1", "nodata"} }
        \cup { Resp("ok", t) : t \in ResponseTokens }

BackendResponses ==   \* POST /api/agora/token
    { Resp(k, <<>>) : k \in {"neterr", "notok"} }
        \cup { Resp("ok", t) : t \in ResponseTokens }

\* resp.data.appid of a vendor response; <<>> when the field is missing
ResponseAppIds == { <<>>, HexMix }

VendorResp(kind, token, appid) ==
    [kind |-> kind, token |-> token, appid |-> appid]

VendorResponses ==    \* POST to the vendor's token server
    { VendorResp(k, <<>>, <<>>) : k \in {"neterr", "code1"} }
        \cup { VendorResp("ok", t, id) :
                   t \in ResponseTokens, id \in ResponseAppIds }

\* a settled Promise<string>: the value returned, or the Error thrown
Returned(token) == [ok |-> TRUE, token |-> token, message |-> ""]
Thrown(msg) == [ok |-> FALSE, token |-> <<>>, message |-> msg]

\* generateTokenFromServer on the response of its GET request
generateTokenFromServer(resp) ==
    IF resp.kind = "neterr" THEN Thrown(MsgFetch)
    ELSE IF resp.kind = "notok" THEN Thrown(MsgHttp)
    ELSE IF resp.kind = "code1" THEN Thrown(MsgServerCode)
    ELSE IF resp.kind = "nodata" THEN Thrown(MsgNoData)
    ELSE Returned(resp.token)

\* generateTokenFromBackend on the response of its POST request
generateTokenFromBackend(resp) ==
    IF resp.kind = "neterr" THEN Thrown(MsgFetch)
    ELSE IF resp.kind = "notok" THEN Thrown(MsgHttp)
    ELSE Returned(resp.token)

\* agoraGetAppData on the response of its request: respData.token || null
agoraGetAppData(resp) ==
    IF resp.kind = "neterr" THEN Thrown(MsgFetch)
    ELSE IF resp.kind = "code1" THEN Thrown(MsgVendorCode)
    ELSE Returned(resp.token)

\* generateToken giving up when generateTokenFromServer throws
AfterServerNoFallback(s, resp) ==
    LET got == generateTokenFromServer(resp)
    IN  IF got.ok THEN TokenReady(s, got.token)
        ELSE TokenThrown(s, got.message)

\* generateToken: the GET request of generateTokenFromServer settles
AfterServer(s, resp) ==
    LET got == generateTokenFromServer(resp)
    IN  IF got.ok THEN TokenReady(s, got.token)
        ELSE \* catch (serverError): fall back to generateTokenFromBackend
             [s EXCEPT !.r.pc = "tokPOST", !.e.calls.post = @ + 1,
                       !.r.requests = Append(@, "POST")]

\* generateToken sending the POST request once more when it fails
AfterBackendRetry(s, resp) ==
    LET got == generateTokenFromBackend(resp)
    IN  IF got.ok THEN TokenReady(s, got.token)
        ELSE IF Len(s.r.requests) < 3
        THEN [s EXCEPT !.e.calls.post = @ + 1,
                       !.r.requests = Append(@, "POST")]
        ELSE TokenThrown(s, got.message)

\* generateToken: the POST request of generateTokenFromBackend settles
AfterBackend(s, resp) ==
    LET got == generateTokenFromBackend(resp)
    IN  IF got.ok THEN TokenReady(s, got.token)
        ELSE TokenThrown(s, got.message)

\* agoraGetAppData writing the server's appid into the session's config
AppDataWritesSession(s, resp) ==
    IF resp.kind = "ok" /\ resp.appid # <<>>
           /\ s.r.tokenConfig.appid # resp.appid
    THEN [s EXCEPT !.a.config.appId = resp.appid]
    ELSE s

\* agoraGetAppData: "Update appid in config if provided by server", config
\* being the object it was called with
AppDataWrites(s, resp) ==
    IF resp.kind = "ok" /\ resp.appid # <<>>
           /\ s.r.tokenConfig.appid # resp.appid
    THEN [s EXCEPT !.r.tokenConfig.appid = resp.appid]
    ELSE s

\* generateToken returning whatever agoraGetAppData returned
AfterVendorUnchecked(s, resp) ==
    LET got == agoraGetAppData(resp)
        s1 == AppDataWrites(s, resp)
    IN  IF got.ok THEN TokenReady(s1, got.token)
        ELSE TokenThrown(s1, got.message)

\* generateToken: the request of agoraGetAppData settles
AfterVendor(s, resp) ==
    LET got == agoraGetAppData(resp)
        s1 == AppDataWrites(s, resp)
    IN  IF ~got.ok THEN TokenThrown(s1, got.message)
        ELSE IF got.token # <<>> THEN TokenReady(s1, got.token)
        ELSE TokenThrown(s1, MsgNoMethod)

\* ------------------------------------- engine join, createAndPublishTracks
\* createAndPublishTracks() up to createMicrophoneAudioTrack()
CreateAndPublishTracks(s) ==
    IF s.a.client = "null" \/ ~s.a.isPublisher THEN Resolve(s)
    ELSE [s EXCEPT !.r.pc = "mic", !.e.calls.mic = @ + 1]

\* this.client.join(...) rejected with error e, which join()'s catch receives
EngineJoinFailed(s, e) == Caught([s EXCEPT !.e.joinError = <<e>>], e)

\* this.client.join(...) resolved
AfterEngineJoin(s) ==
    LET s1 == [s EXCEPT !.e.connectionState =
                            IF channel.online THEN "CONNECTED"
                            ELSE "RECONNECTING"]
    IN  IF s1.a.isPublisher THEN CreateAndPublishTracks(s1) ELSE Resolve(s1)

\* createMicrophoneAudioTrack() resolved: on to createCameraVideoTrack()
AfterMic(s) ==
    [s EXCEPT !.a.localAudioTrack = "track", !.e.audioTrackObj = "live",
              !.r.pc = "cam", !.e.calls.cam = @ + 1]

\* createCameraVideoTrack() resolved: on to client.publish([audio, video])
AfterCam(s) ==
    [s EXCEPT !.a.localVideoTrack = "track", !.e.videoTrackObj = "live",
              !.r.pc = "publish", !.e.calls.publish = @ + 1]

\* client.publish resolved; the local video plays; join() returns
AfterPublish(s) == Resolve(s)

\* ----------------------------------------------------- AgoraClient.leave
TrackFaults == {"none", "stop", "close"}

LeaveThrows(s, e) ==
    [s EXCEPT !.r.leaveOutcome = Outcome("rejected", e.message)]

\* track.stop(); track.close(), the first of which may throw
TrackObjAfter(obj, fault) ==
    IF fault = "stop" THEN obj
    ELSE IF fault = "close" THEN "stopped"
    ELSE "closed"

\* await this.client.leave() is reached
EngineLeaveCall(s) ==
    [s EXCEPT !.e.calls.leave = @ + 1, !.r.leaveInFlight = @ + 1]

\* the audio block of leave(), then the engine leave
LeaveAudio(s, afault) ==
    IF s.a.localAudioTrack = "null" THEN EngineLeaveCall(s)
    ELSE LET s1 == [s EXCEPT !.e.audioTrackObj = TrackObjAfter(@, afault),
                             !.e.calls.trackOps = @ + 1]
         IN  IF afault # "none" THEN LeaveThrows(s1, ErrTrack)
             ELSE EngineLeaveCall([s1 EXCEPT !.a.localAudioTrack = "null"])

\* the video block of leave(), then the rest
LeaveVideo(s, vfault, afault) ==
    IF s.a.localVideoTrack = "null" THEN LeaveAudio(s, afault)
    ELSE LET s1 == [s EXCEPT !.e.videoTrackObj = TrackObjAfter(@, vfault),
                             !.e.calls.trackOps = @ + 1]
         IN  IF vfault # "none" THEN LeaveThrows(s1, ErrTrack)
             ELSE LeaveAudio([s1 EXCEPT !.a.localVideoTrack = "null"], afault)

\* leave() up to its await
Leave(s0, vfault, afault) ==
    LET s1 == [s0 EXCEPT !.r.log = Append(@, "leave"),
                         !.r.leaveOutcome = Outcome("pending", "")]
    IN  IF s1.a.client = "null"
        THEN [s1 EXCEPT !.r.leaveOutcome = Outcome("resolved", "")]
        ELSE LeaveVideo(s1, vfault, afault)

\* await this.client.leave() resolved
AfterEngineLeave(s) ==
    [s EXCEPT !.r.leaveInFlight = @ - 1,
              !.a.isPublisher = FALSE,
              !.e.connectionState = "DISCONNECTED",
              !.r.leaveOutcome = Outcome("resolved", "")]

\* await this.client.leave() rejected: leave() rethrows
EngineLeaveFailed(s) ==
    [LeaveThrows(s, ErrLeave) EXCEPT !.r.leaveInFlight = @ - 1]

\* ------------------------------------------------------ useAgoraAudience
NoClient == 0

HookInit == [client |-> NoClient, isJoined |-> FALSE, isJoining |-> FALSE,
             remoteUsers |-> {}, error |-> ""]

\* what joinChannel, leaveChannel and the effect cleanup of a render close over
Closure(h) ==
    [client |-> h.client, isJoined |-> h.isJoined, isJoining |-> h.isJoining]

\* a state setter called after the component unmounted changes nothing
SetState(h, new) == IF mounted THEN new ELSE h

\* client.remoteUsers: the engine mirrors the channel while it is joined
remoteUsers(s) ==
    IF s.e.connectionState = "DISCONNECTED" THEN {} ELSE channel.users

\* getRemoteUsers(): this.client?.remoteUsers || []
getRemoteUsers(s) == IF s.a.client = "null" THEN {} ELSE remoteUsers(s)

\* isConnected(): this.client?.connectionState === 'CONNECTED'
isConnected(s) == s.a.client # "null" /\ s.e.connectionState = "CONNECTED"

\* updateRemoteUsers copying the engine's users whatever the connection state
updateRemoteUsersUnguarded(h, s) == [h EXCEPT !.remoteUsers = getRemoteUsers(s)]

\* updateRemoteUsers, the interval callback of object c
updateRemoteUsers(h, s) ==
    IF isConnected(s) THEN [h EXCEPT !.remoteUsers = getRemoteUsers(s)] ELSE h

\* joinChannel after await agoraClient.joinAsAudience() settled
HookJoinSettled(h, c, s) ==
    IF s.r.joinOutcome.status = "resolved"
    THEN updateRemoteUsers(
             [h EXCEPT !.client = c, !.isJoined = TRUE,
                       !.remoteUsers = getRemoteUsers(s),
                       !.isJoining = FALSE], s)
    ELSE [h EXCEPT !.error = s.r.joinOutcome.message, !.isJoining = FALSE]

\* leaveChannel resetting the hook whether client.leave() resolved or threw
HookLeaveSettledReset(h, s) ==
    IF s.r.leaveOutcome.status = "resolved"
    THEN [h EXCEPT !.client = NoClient, !.isJoined = FALSE,
                   !.remoteUsers = {}, !.error = ""]
    ELSE [h EXCEPT !.client = NoClient, !.isJoined = FALSE,
                   !.remoteUsers = {}, !.error = s.r.leaveOutcome.message]

\* leaveChannel after client.leave() settled
HookLeaveSettled(h, s) ==
    IF s.r.leaveOutcome.status = "resolved"
    THEN [h EXCEPT !.client = NoClient, !.isJoined = FALSE,
                   !.remoteUsers = {}, !.error = ""]
    ELSE [h EXCEPT !.error = s.r.leaveOutcome.message]

\* a step of the join in flight on object c, leading to instance state s;
\* when it settles the join, the awaiting joinChannel continues
Step(c, s) ==
    /\ Put(c, s)
    /\ IF run[c].caller = "hook" /\ s.r.pc = "idle"
       THEN /\ hook' = SetState(hook, HookJoinSettled(hook, c, s))
            /\ interval' = [interval EXCEPT
                   ![c] = @ \/ s.r.joinOutcome.status = "resolved"]
       ELSE UNCHANGED <<hook, interval>>
    /\ UNCHANGED <<sideVars, page, env, channel, props, rendered, mounted,
                   left>>

\* a leave() call on object c settled, leading to instance state s
LeaveStep(c, s) ==
    /\ Put(c, s)
    /\ IF run[c].caller = "hook"
       THEN /\ hook' = SetState(hook, HookLeaveSettled(hook, s))
            /\ left' = TRUE
       ELSE UNCHANGED <<hook, left>>
    /\ UNCHANGED <<sideVars, page, env, channel, props, rendered, mounted,
                   interval>>

\* --------------------------------------------- network and engine answers
\* what an endpoint may answer: anything, unless the environment fixes it
Answer(endpoint, responses) ==
    IF endpoint \in DOMAIN env THEN {env[endpoint]} ELSE responses

ServerResponds(c) ==
    /\ run[c].pc = "tokGET"
    /\ \E resp \in Answer("server", ServerResponses) :
           Step(c, AfterServer(Inst(c), resp))

BackendResponds(c) ==
    /\ run[c].pc = "tokPOST"
    /\ \E resp \in Answer("backend", BackendResponses) :
           Step(c, AfterBackend(Inst(c), resp))

VendorResponds(c) ==
    /\ run[c].pc = "tokVendor"
    /\ \E resp \in Answer("vendor", VendorResponses) :
           Step(c, AfterVendor(Inst(c), resp))

EngineJoinResolves(c) ==
    /\ run[c].pc = "engineJoin"
    /\ Step(c, AfterEngineJoin(Inst(c)))

EngineJoinRejects(c) ==
    /\ run[c].pc = "engineJoin"
    /\ \E e \in EngineJoinErrors : Step(c, EngineJoinFailed(Inst(c), e))

MicResolves(c) == run[c].pc = "mic" /\ Step(c, AfterMic(Inst(c)))
MicRejects(c) == run[c].pc = "mic" /\ Step(c, Caught(Inst(c), ErrMic))
CamResolves(c) == run[c].pc = "cam" /\ Step(c, AfterCam(Inst(c)))
CamRejects(c) == run[c].pc = "cam" /\ Step(c, Caught(Inst(c), ErrCam))
PublishResolves(c) == run[c].pc = "publish" /\ Step(c, AfterPublish(Inst(c)))
PublishRejects(c) == run[c].pc = "publish" /\ Step(c, Caught(Inst(c), ErrPublish))

EngineLeaveResolves(c) ==
    /\ run[c].leaveInFlight > 0
    /\ LeaveStep(c, AfterEngineLeave(Inst(c)))

EngineLeaveRejects(c) ==
    /\ run[c].leaveInFlight > 0
    /\ LeaveStep(c, EngineLeaveFailed(Inst(c)))

\* the channel changes, and every joined engine client follows it; with no
\* engine client joined nothing of the program observes the channel
ChannelChange(ch, from, to) ==
    /\ \E c \in Clients : engine[c].connectionState # "DISCONNECTED"
    /\ channel' = ch
    /\ engine' = [c \in Clients |->
                      IF engine[c].connectionState = from
                      THEN [engine[c] EXCEPT !.connectionState = to]
                      ELSE engine[c]]
    /\ UNCHANGED <<sideVars, page, env, agora, run, props, hook, rendered,
                   mounted, interval, left>>

RemoteUserJoins(u) ==
    /\ u \notin channel.users
    /\ ChannelChange([channel EXCEPT !.users = @ \cup {u}],
                     "CONNECTED", "CONNECTED")

RemoteUserLeaves(u) ==
    /\ u \in channel.users
    /\ ChannelChange([channel EXCEPT !.users = @ \ {u}],
                     "CONNECTED", "CONNECTED")

ConnectionLost ==
    /\ channel.online
    /\ ChannelChange([channel EXCEPT !.online = FALSE],
                     "CONNECTED", "RECONNECTING")

ConnectionRestored ==
    /\ ~channel.online
    /\ ChannelChange([channel EXCEPT !.online = TRUE],
                     "RECONNECTING", "CONNECTED")

\* --------------------------------------- calls made on an AgoraClient
\* a caller other than the hook invokes a method of object c, having awaited
\* the calls it made before
DirectCall(c, s) ==
    /\ run[c].caller = "direct"
    /\ run[c].pc = "idle" /\ run[c].leaveInFlight = 0
    /\ Ops(c) < MaxOps
    /\ Put(c, s)
    /\ UNCHANGED <<sideVars, page, env, channel, props, hook, rendered,
                   mounted, interval, left>>

joinAsAudience(c) == DirectCall(c, Join(Inst(c), "audience", env))

joinAsPublisher(c) == DirectCall(c, Join(Inst(c), "publisher", env))

leave(c) ==
    \E vfault \in TrackFaults, afault \in TrackFaults :
        DirectCall(c, Leave(Inst(c), vfault, afault))

\* generateToken(role), called on object c from outside join()
GenerateToken(s, e) ==
    GenerateTokenStart(
        [s EXCEPT !.r.log = Append(@, "generateToken"),
                  !.r.tokenOutcome = TokenOutcome("pending", <<>>, "")], e)

generateToken(c) == DirectCall(c, GenerateToken(Inst(c), env))

\* ---------------------------------------------------------- the video page
\* the query parameters appId, cert and channel; <<>> when one is missing
PageUrls ==
    { [appId |-> Hex32, appCertificate |-> <<"c", "e", "r", "t">>,
       channel |-> <<"d", "e", "m", "o">>],
      [appId |-> Hex32, appCertificate |-> <<>>,
       channel |-> <<"d", "e", "m", "o">>],
      [appId |-> Rep("a", AppIdLen - 1), appCertificate |-> <<"c", "e", "r", "t">>,
       channel |-> <<"d", "e", "m", "o">>] }

\* useState('') for appId, appCertificate and channel
PageState(id, cert, ch) ==
    [appId |-> id, appCertificate |-> cert, channel |-> ch]

\* no video page: the hook is used by some other component
NoPage == [url |-> PageState(<<>>, <<>>, <<>>),
           state |-> PageState(<<>>, <<>>, <<>>),
           timers |-> <<>>]

\* the body of the page's effect, run by a render whose joinChannel closed
\* over the props pr and the state values cl
PageEffect(pg, pr, cl) ==
    IF pg.url.appId = <<>> \/ pg.url.appCertificate = <<>>
           \/ pg.url.channel = <<>>
    THEN pg     \* setError('Missing required parameters...')
    ELSE IF ~appIdPattern(pg.url.appId)
    THEN pg     \* setError('Invalid App ID format...')
    ELSE [pg EXCEPT !.state = pg.url,
                    !.timers = Append(@, [props |-> pr, closure |-> cl])]


\* the lowest-numbered object not yet constructed
Fresh(c) ==
    /\ ~agora[c].config.made
    /\ \A d \in Clients : d < c => agora[d].config.made

\* leaveChannel of the render that closed over cl, past its guard
HookLeave(c) ==
    LET s == Leave(Inst(c), "none", "none")
        settled == s.r.leaveOutcome.status # "pending"
    IN  /\ Ops(c) < MaxOps
        /\ interval' = [interval EXCEPT ![c] = FALSE]
        /\ Put(c, s)
        /\ hook' = IF settled THEN SetState(hook, HookLeaveSettled(hook, s))
                   ELSE hook
        /\ left' = (left \/ settled)

\* the joinChannel callback of a render that closed over the state values
\* cl and the props pr, called with providedToken, up to its await
JoinChannelOf(cl, pr, providedToken) ==
    /\ ~(cl.isJoining \/ cl.isJoined)
    /\ \E c \in Clients :
        /\ Fresh(c)
        /\ LET config == [appId |-> pr.appId, channel |-> pr.channel,
                          token |-> providedToken,
                          appCertificate |-> pr.appCertificate,
                          uid |-> NoUid, made |-> TRUE]
               s0 == [a |-> NewAgora(config),
                      r |-> [NewRun EXCEPT !.caller = "hook"],
                      e |-> engine[c]]
               s == Join(s0, "audience", env)
               h1 == [hook EXCEPT !.isJoining = TRUE, !.error = ""]
           IN  /\ Put(c, s)
               /\ hook' = SetState(hook,
                                   IF s.r.pc = "idle"
                                   THEN HookJoinSettled(h1, c, s) ELSE h1)
    /\ left' = FALSE

\* joinChannel(providedToken) of the last render
joinChannel(providedToken) ==
    /\ mounted
    /\ JoinChannelOf(rendered, props, providedToken)
    /\ UNCHANGED <<sideVars, page, env, channel, props, rendered, mounted,
                   interval>>

\* leaveChannel() of the last render
leaveChannel ==
    /\ mounted
    /\ rendered.client # NoClient /\ rendered.isJoined
    /\ HookLeave(rendered.client)
    /\ UNCHANGED <<sideVars, page, env, channel, props, rendered, mounted>>

\* the effect cleanup of the last render: if (client) leaveChannel()
Cleanup ==
    IF rendered.client # NoClient /\ rendered.isJoined
    THEN HookLeave(rendered.client)
    ELSE UNCHANGED <<agora, run, engine, hook, interval, left>>

\* React renders the pending state; the effect depends on [client,
\* leaveChannel], and leaveChannel on [client, isJoined]
Render ==
    /\ mounted
    /\ Closure(hook) # rendered
    /\ rendered' = Closure(hook)
    /\ IF hook.client # rendered.client \/ hook.isJoined # rendered.isJoined
       THEN Cleanup
       ELSE UNCHANGED <<agora, run, engine, hook, interval, left>>
    /\ UNCHANGED <<sideVars, page, env, channel, props, mounted>>

\* React renders the video page and the hook it uses: the page passes its
\* state to the hook as props; its effect depends on [joinChannel], and
\* joinChannel on [appId, channel, uid, appCertificate, isJoining, isJoined]
PageRender ==
    /\ mounted
    /\ Closure(hook) # rendered \/ page.state # props
    /\ rendered' = Closure(hook)
    /\ props' = page.state
    /\ IF hook.client # rendered.client \/ hook.isJoined # rendered.isJoined
       THEN Cleanup
       ELSE UNCHANGED <<agora, run, engine, hook, interval, left>>
    /\ page' = IF \/ page.state # props
                  \/ hook.isJoining # rendered.isJoining
                  \/ hook.isJoined # rendered.isJoined
               THEN PageEffect(page, page.state, Closure(hook))
               ELSE page
    /\ UNCHANGED <<sideVars, env, channel, mounted>>

\* the oldest pending timeout of the page fires: await joinChannel()
TimerFires ==
    /\ page.timers # <<>>
    /\ LET timer == Head(page.timers)
       IN  IF timer.closure.isJoining \/ timer.closure.isJoined
           THEN UNCHANGED <<agora, run, engine, hook, left>>
           ELSE JoinChannelOf(timer.closure, timer.props, <<>>)
    /\ page' = [page EXCEPT !.timers = Tail(@)]
    /\ UNCHANGED <<sideVars, env, channel, props, rendered, mounted, interval>>

\* the component unmounts
Unmount ==
    /\ mounted
    /\ mounted' = FALSE
    /\ Cleanup
    /\ UNCHANGED <<sideVars, page, env, channel, props, rendered>>

\* the interval of object c fires
Tick(c) ==
    /\ interval[c]
    /\ hook' = SetState(hook, updateRemoteUsers(hook, Inst(c)))
    /\ UNCHANGED <<sideVars, page, env, agora, run, engine, channel, props,
                   rendered, mounted, interval, left>>

\* ------------------------------------- the token endpoint /api/agora/token
DefaultExpire == 3600   \* expireTimeInSeconds = 3600
GetExpire     == 3600   \* currentTimestamp + 3600

MsgRequired       == "App ID, App Certificate, and Channel Name are required"
MsgEndpointFailed == "Failed to generate token"
MsgBodyParse      == "Unexpected end of JSON input"
MsgSignFailed     == "sign failed"

\* a field of a request body or a parameter of a query string
Given(v) == [given |-> TRUE, v |-> v]
NotGiven(zero) == [given |-> FALSE, v |-> zero]

\* !field, for a field that holds a string when given
Falsy(field) == ~field.given \/ field.v = <<>>

\* !role, for the role parameter of a query
NoRole(field) == ~field.given \/ field.v = ""

Digits == <<"0", "1", "2", "3", "4", "5", "6", "7", "8", "9">>

IsDigit(ch) == \E d \in 1..Len(Digits) : Digits[d] = ch

DigitValue(ch) == (CHOOSE d \in 1..Len(Digits) : Digits[d] = ch) - 1

\* the number written by the longest prefix of s made of digits
RECURSIVE DigitPrefix(_, _)
DigitPrefix(s, acc) ==
    IF s = <<>> \/ ~IsDigit(Head(s)) THEN acc
    ELSE DigitPrefix(Tail(s), 10 * acc + DigitValue(Head(s)))

\* parseInt(s) || 0: leading white space, an optional sign, decimal digits;
\* NaN (nothing parsed) gives 0
parseIntOr0(s) ==
    LET t == TrimStart(s)
        signed == t # <<>> /\ Head(t) \in {"+", "-"}
        u == IF signed THEN Tail(t) ELSE t
    IN  IF u = <<>> \/ ~IsDigit(Head(u)) THEN 0
        ELSE IF signed /\ Head(t) = "-" THEN 0 - DigitPrefix(u, 0)
        ELSE DigitPrefix(u, 0)

\* RtcTokenBuilder.buildTokenWithUid: the token it returns is determined by
\* its arguments
buildTokenWithUid(args) == [signedFor |-> args]

\* what the signing primitive does when called: return a token, or throw
SignOutcomes == {"returns", "throws"}

\* NextResponse.json(body, {status})
Json(status, body) == [status |-> status, body |-> body]

\* a handler's result: its response and the calls of the signing primitive
Handled(response, signed) == [response |-> response, signed |-> signed]

\* the two validations both handlers start with: the message of the one
\* that fails, or "" when both pass, without the App ID format check
EndpointValidationNoFormat(appId, appCertificate, channelName) ==
    IF Falsy(appId) \/ Falsy(appCertificate) \/ Falsy(channelName)
    THEN MsgRequired
    ELSE ""

\* the two validations both handlers start with: the message of the one
\* that fails, or "" when both pass
EndpointValidation(appId, appCertificate, channelName) ==
    IF Falsy(appId) \/ Falsy(appCertificate) \/ Falsy(channelName)
    THEN MsgRequired
    ELSE IF ~appIdPattern(appId.v) THEN MsgAppIdFormat
    ELSE ""

\* RtcRole of a role string
AgoraRole(role) == IF role = "publisher" THEN "PUBLISHER" ELSE "SUBSCRIBER"

\* the arguments of buildTokenWithUid
SignArgs(appId, appCertificate, channelName, uidNum, agoraRole, expire) ==
    [appId |-> appId, appCertificate |-> appCertificate,
     channelName |-> channelName, uid |-> uidNum, role |-> agoraRole,
     tokenExpire |-> expire, privilegeExpire |-> expire]

\* uid of a POST body: string | number | undefined
BodyUid(type, text, num) == [type |-> type, text |-> text, num |-> num]

\* typeof uid === 'string' ? parseInt(uid) || 0 : uid || 0
UidNum(uid) ==
    IF uid.type = "string" THEN parseIntOr0(uid.text)
    ELSE IF uid.type = "number" THEN uid.num
    ELSE 0

\* POST with every token expiring one hour from now
PostFixedExpiry(request, now, outcome) ==
    IF request.malformed
    THEN Handled(Json(500, [error |-> MsgEndpointFailed,
                            details |-> MsgBodyParse]), <<>>)
    ELSE
    LET body == request.body
        role == IF body.role.given THEN body.role.v ELSE "audience"
        invalid == EndpointValidation(body.appId, body.appCertificate,
                                      body.channelName)
        currentTimestamp == now
        privilegeExpiredTs == currentTimestamp + DefaultExpire
        uidNum == UidNum(body.uid)
        args == SignArgs(body.appId.v, body.appCertificate.v,
                         body.channelName.v, uidNum, AgoraRole(role),
                         privilegeExpiredTs)
    IN  IF invalid # "" THEN Handled(Json(400, [error |-> invalid]), <<>>)
        ELSE IF outcome = "throws"
        THEN Handled(Json(500, [error |-> MsgEndpointFailed,
                                details |-> MsgSignFailed]), <<args>>)
        ELSE Handled(Json(200, [token |-> buildTokenWithUid(args),
                                uid |-> uidNum,
                                channel |-> body.channelName.v,
                                role |-> role,
                                expireTime |-> privilegeExpiredTs,
                                generatedAt |-> currentTimestamp]),
                     <<args>>)

\* export async function POST(request), at time now, the signing primitive
\* behaving as outcome says
POST(request, now, outcome) ==
    IF request.malformed
    THEN \* request.json() throws: caught at line 72
         Handled(Json(500, [error |-> MsgEndpointFailed,
                            details |-> MsgBodyParse]), <<>>)
    ELSE
    LET body == request.body
        role == IF body.role.given THEN body.role.v ELSE "audience"
        expireTimeInSeconds ==
            IF body.expireTimeInSeconds.given THEN body.expireTimeInSeconds.v
            ELSE DefaultExpire
        invalid == EndpointValidation(body.appId, body.appCertificate,
                                      body.channelName)
        currentTimestamp == now
        privilegeExpiredTs == currentTimestamp + expireTimeInSeconds
        uidNum == UidNum(body.uid)
        args == SignArgs(body.appId.v, body.appCertificate.v,
                         body.channelName.v, uidNum, AgoraRole(role),
                         privilegeExpiredTs)
    IN  IF invalid # "" THEN Handled(Json(400, [error |-> invalid]), <<>>)
        ELSE IF outcome = "throws"
        THEN Handled(Json(500, [error |-> MsgEndpointFailed,
                                details |-> MsgSignFailed]), <<args>>)
        ELSE Handled(Json(200, [token |-> buildTokenWithUid(args),
                                uid |-> uidNum,
                                channel |-> body.channelName.v,
                                role |-> role,
                                expireTime |-> privilegeExpiredTs,
                                generatedAt |-> currentTimestamp]),
                     <<args>>)

\* export async function GET(request), at time now, the signing primitive
\* behaving as outcome says
GET(request, now, outcome) ==
    LET query == request.query
        uid == IF Falsy(query.uid) THEN <<"0">> ELSE query.uid.v
        role == IF NoRole(query.role) THEN "audience" ELSE query.role.v
        invalid == EndpointValidation(query.appId, query.appCertificate,
                                      query.channel)
        currentTimestamp == now
        privilegeExpiredTs == currentTimestamp + GetExpire
        uidNum == parseIntOr0(uid)
        args == SignArgs(query.appId.v, query.appCertificate.v,
                         query.channel.v, uidNum, AgoraRole(role),
                         privilegeExpiredTs)
    IN  IF invalid # "" THEN Handled(Json(400, [error |-> invalid]), <<>>)
        ELSE IF outcome = "throws"
        THEN Handled(Json(500, [code |-> 1, message |-> MsgEndpointFailed,
                                error |-> MsgSignFailed]), <<args>>)
        ELSE Handled(Json(200, [code |-> 0,
                                data |-> [token |-> buildTokenWithUid(args),
                                          appid |-> query.appId.v]]),
                     <<args>>)

\* the fields and parameters requests are made of
RequestAppIds ==
    { NotGiven(<<>>) } \cup { Given(id) : id \in AppIds \ { <<" ", " ">> } }

RequestCertificates == { NotGiven(<<>>) } \cup { Given(c) : c \in Certificates }

RequestChannels ==
    { NotGiven(<<>>), Given(<<>>), Given(<<"d", "e", "m", "o">>) }

RequestRoles ==
    { NotGiven(""), Given("publisher"), Given("audience"), Given("host") }

RequestExpires == { NotGiven(0), Given(0), Given(60) }

BodyUids ==
    { BodyUid("undefined", <<>>, 0), BodyUid("string", <<"7">>, 0),
      BodyUid("string", <<"x">>, 0), BodyUid("number", <<>>, 7) }

QueryUids == { NotGiven(<<>>), Given(<<"1", "2", "a">>), Given(<<"x">>) }

PostRequests ==
    { [malformed |-> TRUE] }
        \cup [malformed : {FALSE},
              body : [appId : RequestAppIds,
                      appCertificate : RequestCertificates,
                      channelName : RequestChannels, uid : BodyUids,
                      role : RequestRoles,
                      expireTimeInSeconds : RequestExpires]]

GetRequests ==
    [query : [appId : RequestAppIds, appCertificate : RequestCertificates,
              channel : RequestChannels, uid : QueryUids,
              role : RequestRoles \cup { Given("") }]]

\* the endpoint before it has handled the request a client sends it with
\* method incoming, the signing primitive behaving as sign says
Api(incoming, request, sign) ==
    [now |-> 0, incoming |-> incoming, request |-> request, sign |-> sign,
     method |-> "none", at |-> 0, response |-> Json(0, [error |-> ""]),
     signed |-> <<>>]

NoApi == Api("none", [malformed |-> TRUE], "returns")

\* the endpoint handles the request, which the client may send again
Serve(handled) ==
    /\ api' = [api EXCEPT !.method = api.incoming, !.at = api.now,
                          !.response = handled.response,
                          !.signed = handled.signed]
    /\ UNCHANGED <<mainVars, form, stage>>

PostRequest ==
    /\ api.incoming = "POST"
    /\ Serve(POST(api.request, api.now, api.sign))

GetRequest ==
    /\ api.incoming = "GET"
    /\ Serve(GET(api.request, api.now, api.sign))

\* a second passes on the endpoint's clock
Elapse ==
    /\ api.now < MaxNow
    /\ api' = [api EXCEPT !.now = @ + 1]
    /\ UNCHANGED <<mainVars, form, stage>>

\* ------------------------------------------- setupEventListeners: placement
\* a run of the user-published handler for user uid and mediaType media:
\* where it stands, whether the remoteVideoTrack it captured is defined,
\* the calls of play(playerContainer) it has made, whether it has ever
\* called setTimeout(playVideo, 500), the object c whose engine delivered the
\* event, and whether user-unpublished for video or user-left has been
\* delivered for the uid since
Handler(c, uid, media, pc, track, plays) ==
    [uid |-> uid, media |-> media, pc |-> pc, track |-> track, plays |-> plays,
     retried |-> FALSE, client |-> c, over |-> FALSE]

\* slots: the uids u for which document.getElementById('user-' + u) finds an
\* element; shown: the uids whose element holds a video player; handlers:
\* the runs of the user-published handler, oldest first
NoStage == [slots |-> {}, shown |-> {}, handlers |-> <<>>]

\* playVideo giving up when the container is missing
PlayVideoOnce(st, k) ==
    LET h == st.handlers[k]
    IN  IF h.uid \in st.slots /\ h.track
        THEN [st EXCEPT !.handlers[k].pc = "played",
                        !.handlers[k].plays = @ + 1,
                        !.shown = @ \cup {h.uid}]
        ELSE [st EXCEPT !.handlers[k].pc = "gaveUp"]

\* playVideo() of handler k
PlayVideo(st, k) ==
    LET h == st.handlers[k]
    IN  IF h.uid \in st.slots /\ h.track
        THEN \* remoteVideoTrack.play(playerContainer)
             [st EXCEPT !.handlers[k].pc = "played",
                        !.handlers[k].plays = @ + 1,
                        !.shown = @ \cup {h.uid}]
        ELSE \* setTimeout(playVideo, 500)
             [st EXCEPT !.handlers[k].pc = "retrying",
                        !.handlers[k].retried = TRUE]

\* the engine of object c delivers user-published for user u: the handler
\* runs up to await this.client.subscribe(user, mediaType)
UserPublished(c, u, media) ==
    /\ engine[c].connectionState = "CONNECTED"
    /\ u \in channel.users
    /\ Len(stage.handlers) < MaxPublishes
    /\ agora[c].client # "null"
    /\ stage' = [stage EXCEPT !.handlers =
                     Append(@, Handler(c, u, media, "subscribing", FALSE, 0))]
    /\ UNCHANGED <<mainVars, api, form>>

\* subscribe resolved for handler k, user.videoTrack being defined or not
SubscribeResolves(k) ==
    /\ k \in DOMAIN stage.handlers
    /\ stage.handlers[k].pc = "subscribing"
    /\ IF stage.handlers[k].media = "video"
       THEN \E track \in BOOLEAN :
                stage' = PlayVideo([stage EXCEPT !.handlers[k].track = track],
                                   k)
       ELSE \* remoteAudioTrack.play(), when there is an audio track
            stage' = [stage EXCEPT !.handlers[k].pc = "audio"]
    /\ UNCHANGED <<mainVars, api, form>>

\* subscribe rejected for handler k: caught and logged
SubscribeRejects(k) ==
    /\ k \in DOMAIN stage.handlers
    /\ stage.handlers[k].pc = "subscribing"
    /\ stage' = [stage EXCEPT !.handlers[k].pc = "failed"]
    /\ UNCHANGED <<mainVars, api, form>>

\* the 500 ms timeout of handler k fires: playVideo()
RetryFires(k) ==
    /\ k \in DOMAIN stage.handlers
    /\ stage.handlers[k].pc = "retrying"
    /\ stage' = PlayVideo(stage, k)
    /\ UNCHANGED <<mainVars, api, form>>

\* the page renders, or stops rendering, the element with id user-u
SlotAppears(u) ==
    /\ u \notin stage.slots
    /\ stage' = [stage EXCEPT !.slots = @ \cup {u}]
    /\ UNCHANGED <<mainVars, api, form>>

SlotDisappears(u) ==
    /\ u \in stage.slots
    /\ stage' = [stage EXCEPT !.slots = @ \ {u}, !.shown = @ \ {u}]
    /\ UNCHANGED <<mainVars, api, form>>

\* playerContainer.innerHTML = '' when the element with id user-u exists
ClearContainer(st, u) ==
    IF u \in st.slots THEN [st EXCEPT !.shown = @ \ {u}] ELSE st

\* the video publishes of user u that object c has handled are over
VideoOver(st, c, u) ==
    [st EXCEPT !.handlers =
        [k \in DOMAIN st.handlers |->
            IF /\ st.handlers[k].client = c
               /\ st.handlers[k].uid = u
               /\ st.handlers[k].media = "video"
            THEN [st.handlers[k] EXCEPT !.over = TRUE]
            ELSE st.handlers[k]]]

\* object c has handled a publish of media by user u that is not over
Publishing(c, u, media) ==
    \E k \in DOMAIN stage.handlers :
        /\ stage.handlers[k].client = c
        /\ stage.handlers[k].uid = u
        /\ stage.handlers[k].media = media
        /\ ~stage.handlers[k].over

\* the engine of object c delivers user-unpublished for user u and media
UserUnpublished(c, u, media) ==
    /\ engine[c].connectionState = "CONNECTED"
    /\ u \in channel.users
    /\ Publishing(c, u, media)
    /\ stage' = IF media = "video"
                THEN ClearContainer(VideoOver(stage, c, u), u)
                ELSE stage
    /\ UNCHANGED <<mainVars, api, form>>

\* the engine of object c delivers user-left for user u, who has left
UserLeft(c, u) ==
    /\ engine[c].connectionState = "CONNECTED"
    /\ u \notin channel.users
    /\ \E media \in {"audio", "video"} : Publishing(c, u, media)
    /\ stage' = ClearContainer(VideoOver(stage, c, u), u)
    /\ UNCHANGED <<mainVars, api, form>>

\* ----------------------------------------------------------- the home page
\* isValidAppId testing the text as typed
isValidAppIdNoTrim(id) == appIdPattern(id)

\* isValidAppId of the home page
isValidAppId(id) == appIdPattern(Trim(id))

\* the home page: appId is the text of the App ID field, shown is the
\* validity its last render displayed, edits counts the keys pressed
Form(appId, shown, edits) == [appId |-> appId, shown |-> shown, edits |-> edits]

NoForm == Form(<<>>, "none", 0)

\* texts of the App ID field: 32 hex characters, one more, one less, none,
\* one character replaced by a letter that is not hex or by a space
AppIdTexts ==
    { Hex32, HexMix, Rep("a", AppIdLen - 1), Rep("a", AppIdLen + 1), <<>> }
        \cup { [Hex32 EXCEPT ![i] = ch] : i \in 1..AppIdLen, ch \in {"g", " "} }

\* white space around the text
Pads == UNION { [1..n -> WhiteSpace] : n \in 0..MaxPad }

TypedAppIds == { l \o text \o r : l \in Pads, r \in Pads, text \in AppIdTexts }

\* the home page renders: the validity line shows isValidAppId(appId)
HomeRender ==
    /\ form.shown = "none"
    /\ form' = [form EXCEPT !.shown =
                    IF isValidAppId(form.appId) THEN "valid" ELSE "invalid"]
    /\ UNCHANGED <<mainVars, api, stage>>

\* the user types one more character: setAppId(e.target.value)
HomeEdit ==
    /\ form.shown # "none"
    /\ form.edits < MaxEdits
    /\ \E ch \in {"a", " "} :
           form' = Form(Append(form.appId, ch), "none", form.edits + 1)
    /\ UNCHANGED <<mainVars, api, stage>>

\* ---------------------------------------------------------- specifications
NoProps == [appId |-> <<>>, channel |-> <<>>, appCertificate |-> <<>>]

HookProps ==
    { [appId |-> Hex32, channel |-> <<"d", "e", "m", "o">>,
       appCertificate |-> <<"c", "e", "r", "t">>],
      [appId |-> Hex32, channel |-> <<"d", "e", "m", "o">>,
       appCertificate |-> <<>>],
      [appId |-> Rep("a", AppIdLen - 1), channel |-> <<"d", "e", "m", "o">>,
       appCertificate |-> <<"c", "e", "r", "t">>] }

\* the tokens a caller of joinChannel passes
HookTokens == { <<>> }

\* nothing has been sent to the token endpoint, nothing typed in the form
InitSideVars == api = NoApi /\ form = NoForm /\ stage = NoStage

InitHookVars ==
    /\ hook = HookInit
    /\ rendered = Closure(HookInit)
    /\ mounted = TRUE
    /\ interval = [c \in Clients |-> FALSE]
    /\ left = FALSE
    /\ page = NoPage

\* one AgoraClient object, constructed on any config, used directly
InitClient ==
    /\ env \in Envs
    /\ \E config \in Configs :
           agora = [c \in Clients |->
                       IF c = 1 THEN NewAgora(config) ELSE NewAgora(NoConfig)]
    /\ run = [c \in Clients |->
                 IF c = 1 THEN [NewRun EXCEPT !.caller = "direct"] ELSE NewRun]
    /\ engine = [c \in Clients |-> NewEngine]
    /\ channel = [users |-> {}, online |-> TRUE]
    /\ props = NoProps
    /\ InitHookVars
    /\ InitSideVars

Answers(c) ==
    \/ ServerResponds(c)
    \/ BackendResponds(c)
    \/ VendorResponds(c)
    \/ EngineJoinResolves(c)
    \/ EngineJoinRejects(c)
    \/ EngineLeaveResolves(c)
    \/ EngineLeaveRejects(c)

Tracks(c) ==
    \/ MicResolves(c)
    \/ MicRejects(c)
    \/ CamResolves(c)
    \/ CamRejects(c)
    \/ PublishResolves(c)
    \/ PublishRejects(c)

Channel ==
    \/ \E u \in Uids : RemoteUserJoins(u)
    \/ \E u \in Uids : RemoteUserLeaves(u)
    \/ ConnectionLost
    \/ ConnectionRestored

NextClient ==
    \E c \in Clients :
        \/ joinAsAudience(c)
        \/ joinAsPublisher(c)
        \/ leave(c)
        \/ Answers(c)
        \/ Tracks(c)

SpecClient == InitClient /\ [][NextClient]_vars

\* generateToken() called on one AgoraClient object, in an environment whose
\* three token endpoints each answer in one fixed way
TokenEnvs ==
    [window : BOOLEAN, urlEncrypted : BOOLEAN, localCert : BOOLEAN,
     server : ServerResponses, backend : BackendResponses,
     vendor : VendorResponses]

TokenConfigs ==
    [appId : {Hex32}, channel : {<<"d", "e", "m", "o">>}, token : {<<>>},
     appCertificate : Certificates, uid : {NoUid}, made : {TRUE}]

InitToken ==
    /\ env \in TokenEnvs
    /\ \E config \in TokenConfigs :
           agora = [c \in Clients |->
                       IF c = 1 THEN NewAgora(config) ELSE NewAgora(NoConfig)]
    /\ run = [c \in Clients |->
                 IF c = 1 THEN [NewRun EXCEPT !.caller = "direct"] ELSE NewRun]
    /\ engine = [c \in Clients |-> NewEngine]
    /\ channel = [users |-> {}, online |-> TRUE]
    /\ props = NoProps
    /\ InitHookVars
    /\ InitSideVars

NextToken ==
    \E c \in Clients :
        \/ generateToken(c)
        \/ ServerResponds(c)
        \/ BackendResponds(c)
        \/ VendorResponds(c)

SpecToken == InitToken /\ [][NextToken]_vars

\* one session: an AgoraClient constructed in a browser on a well-formed
\* config, on which generateToken, joinAsAudience and leave are called while
\* the endpoints, the engine and the channel act
SessionEnvs == { e \in Envs : e.window /\ ~e.localCert }

InitSession ==
    /\ env \in SessionEnvs
    /\ \E config \in TokenConfigs :
           agora = [c \in Clients |->
                       IF c = 1 THEN NewAgora(config) ELSE NewAgora(NoConfig)]
    /\ run = [c \in Clients |->
                 IF c = 1 THEN [NewRun EXCEPT !.caller = "direct"] ELSE NewRun]
    /\ engine = [c \in Clients |-> NewEngine]
    /\ channel = [users |-> {}, online |-> TRUE]
    /\ props = NoProps
    /\ InitHookVars
    /\ InitSideVars

NextSession ==
    \/ \E c \in Clients :
           \/ generateToken(c)
           \/ joinAsAudience(c)
           \/ leave(c)
           \/ Answers(c)
    \/ Channel

SpecSession == InitSession /\ [][NextSession]_vars

\* the token endpoint, sent one request any number of times as time passes
InitEndpoint ==
    /\ \E sign \in SignOutcomes :
           \/ \E request \in PostRequests : api = Api("POST", request, sign)
           \/ \E request \in GetRequests : api = Api("GET", request, sign)
    /\ form = NoForm /\ stage = NoStage
    /\ env \in { e \in Envs : ~e.window /\ ~e.urlEncrypted /\ ~e.localCert }
    /\ agora = [c \in Clients |-> NewAgora(NoConfig)]
    /\ run = [c \in Clients |-> NewRun]
    /\ engine = [c \in Clients |-> NewEngine]
    /\ channel = [users |-> {}, online |-> TRUE]
    /\ props = NoProps
    /\ InitHookVars

NextEndpoint == PostRequest \/ GetRequest \/ Elapse

SpecEndpoint == InitEndpoint /\ [][NextEndpoint]_vars

\* the home page with any text in its App ID field
InitHome ==
    /\ env \in { e \in Envs : e.window /\ ~e.urlEncrypted /\ ~e.localCert }
    /\ agora = [c \in Clients |-> NewAgora(NoConfig)]
    /\ run = [c \in Clients |-> NewRun]
    /\ engine = [c \in Clients |-> NewEngine]
    /\ channel = [users |-> {}, online |-> TRUE]
    /\ props = NoProps
    /\ InitHookVars
    /\ api = NoApi /\ stage = NoStage
    /\ \E id \in TypedAppIds : form = Form(id, "none", 0)

NextHome == HomeRender \/ HomeEdit

SpecHome == InitHome /\ [][NextHome]_vars

\* the hook, mounted in a browser page
InitHook ==
    /\ env \in {e \in Envs : e.window /\ ~e.urlEncrypted}
    /\ props \in HookProps
    /\ agora = [c \in Clients |-> NewAgora(NoConfig)]
    /\ run = [c \in Clients |-> NewRun]
    /\ engine = [c \in Clients |-> NewEngine]
    /\ channel = [users |-> {}, online |-> TRUE]
    /\ InitHookVars
    /\ InitSideVars

NextHook ==
    \/ \E t \in HookTokens : joinChannel(t)
    \/ leaveChannel
    \/ Render
    \/ Unmount
    \/ Channel
    \/ \E c \in Clients : Tick(c) \/ Answers(c)

SpecHook == InitHook /\ [][NextHook]_vars

\* a publisher session used directly, next to a mounted useAgoraAudience
\* that is given a token: both are joined and left, the engine's leave
\* succeeding or throwing
LeaveConfig ==
    [appId |-> Hex32, channel |-> <<"d", "e", "m", "o">>, token |-> Tok007,
     appCertificate |-> <<>>, uid |-> NoUid, made |-> TRUE]

InitLeave ==
    /\ env \in { e \in Envs : e.window /\ ~e.urlEncrypted /\ ~e.localCert }
    /\ props = [appId |-> Hex32, channel |-> <<"d", "e", "m", "o">>,
                appCertificate |-> <<"c", "e", "r", "t">>]
    /\ agora = [c \in Clients |->
                   IF c = 1 THEN NewAgora(LeaveConfig) ELSE NewAgora(NoConfig)]
    /\ run = [c \in Clients |->
                 IF c = 1 THEN [NewRun EXCEPT !.caller = "direct"] ELSE NewRun]
    /\ engine = [c \in Clients |-> NewEngine]
    /\ channel = [users |-> {}, online |-> TRUE]
    /\ InitHookVars
    /\ InitSideVars

NextLeave ==
    \/ joinChannel(Tok007)
    \/ leaveChannel
    \/ Render
    \/ Unmount
    \/ \E u \in Uids : RemoteUserJoins(u)
    \/ \E c \in Clients :
           \/ joinAsPublisher(c)
           \/ leave(c)
           \/ Tick(c)
           \/ EngineJoinResolves(c)
           \/ MicResolves(c)
           \/ CamResolves(c)
           \/ PublishResolves(c)
           \/ EngineLeaveResolves(c)
           \/ EngineLeaveRejects(c)

SpecLeave == InitLeave /\ [][NextLeave]_vars

\* useAgoraAudience given a token, polling the remote users of its session
\* while users come and go and the connection drops and returns
InitPoll ==
    /\ env \in { e \in Envs : e.window /\ ~e.urlEncrypted /\ ~e.localCert }
    /\ props = [appId |-> Hex32, channel |-> <<"d", "e", "m", "o">>,
                appCertificate |-> <<>>]
    /\ agora = [c \in Clients |-> NewAgora(NoConfig)]
    /\ run = [c \in Clients |-> NewRun]
    /\ engine = [c \in Clients |-> NewEngine]
    /\ channel = [users |-> {}, online |-> TRUE]
    /\ InitHookVars
    /\ InitSideVars

NextPoll ==
    \/ joinChannel(Tok007)
    \/ leaveChannel
    \/ Render
    \/ Channel
    \/ \E c \in Clients :
           \/ Tick(c)
           \/ EngineJoinResolves(c)
           \/ EngineLeaveResolves(c)

SpecPoll == InitPoll /\ [][NextPoll]_vars

\* a session on which joinAsAudience() has resolved: its engine delivers
\* user-published events while the page's render slots come and go;
\* timeouts that are due fire
InitStage ==
    /\ env \in { e \in Envs : e.window /\ ~e.urlEncrypted /\ ~e.localCert }
    /\ props = NoProps
    /\ channel = [users |-> {}, online |-> TRUE]
    /\ LET s0 == [a |-> NewAgora(LeaveConfig),
                  r |-> [NewRun EXCEPT !.caller = "direct"],
                  e |-> NewEngine]
           s == AfterEngineJoin(Join(s0, "audience", env))
       IN  /\ agora = [c \in Clients |->
                          IF c = 1 THEN s.a ELSE NewAgora(NoConfig)]
           /\ run = [c \in Clients |-> IF c = 1 THEN s.r ELSE NewRun]
           /\ engine = [c \in Clients |-> IF c = 1 THEN s.e ELSE NewEngine]
    /\ InitHookVars
    /\ InitSideVars

Handlers == 1..MaxPublishes

NextStage ==
    \/ \E c \in Clients, u \in Uids, media \in {"audio", "video"} :
           UserPublished(c, u, media)
    \/ \E u \in Uids : RemoteUserJoins(u) \/ SlotAppears(u) \/ SlotDisappears(u)
    \/ \E k \in Handlers :
           SubscribeResolves(k) \/ SubscribeRejects(k) \/ RetryFires(k)

SpecStage ==
    /\ InitStage
    /\ [][NextStage]_vars
    /\ \A k \in Handlers : WF_vars(RetryFires(k))

\* the same session while remote users also unpublish and leave and the
\* session itself is left
NextRetry ==
    \/ NextStage
    \/ \E u \in Uids : RemoteUserLeaves(u)
    \/ \E c \in Clients, u \in Uids :
           \/ UserLeft(c, u)
           \/ \E media \in {"audio", "video"} : UserUnpublished(c, u, media)
    \/ \E c \in Clients : leave(c) \/ EngineLeaveResolves(c)

SpecRetry == InitStage /\ [][NextRetry]_vars

\* the video page, mounted in a browser on any of the URLs; its first render
\* and the first run of its effect are done
InitPage ==
    /\ env \in {e \in Envs : e.window /\ ~e.urlEncrypted /\ ~e.localCert}
    /\ \E url \in PageUrls :
           page = PageEffect([NoPage EXCEPT !.url = url], NoPage.state,
                             Closure(HookInit))
    /\ props = NoPage.state
    /\ agora = [c \in Clients |-> NewAgora(NoConfig)]
    /\ run = [c \in Clients |-> NewRun]
    /\ engine = [c \in Clients |-> NewEngine]
    /\ channel = [users |-> {}, online |-> TRUE]
    /\ hook = HookInit
    /\ rendered = Closure(HookInit)
    /\ mounted = TRUE
    /\ interval = [c \in Clients |-> FALSE]
    /\ left = FALSE
    /\ InitSideVars

NextPage ==
    \/ PageRender
    \/ TimerFires
    \/ \E c \in Clients :
           \/ ServerResponds(c)
           \/ BackendResponds(c)
           \/ EngineJoinResolves(c)
           \/ EngineJoinRejects(c)

SpecPage == InitPage /\ [][NextPage]_vars

\* ------------------------------------------------------------------ claims
\* the method called last on object c
LastCall(c) == run[c].log[Len(run[c].log)]

\* a string of white space only, the empty string included
Blank(str) == \A i \in 1..Len(str) : str[i] \in WhiteSpace

\* object c has been constructed
Made(c) == agora[c].config.made

\* a joinAs* call has been made on object c
JoinCalled(c) == run[c].joinOutcome.status # "none"

\* the step is a call of leave() on object c
LeaveCalled(c) ==
    /\ Len(run'[c].log) = Len(run[c].log) + 1
    /\ run'[c].log[Len(run'[c].log)] = "leave"

\* C1: a config whose appId is blank, whose channel is blank or whose trimmed
\* appId is not 32 hex characters makes joinAsAudience/joinAsPublisher reject
\* with no external call: no engine client is created, no token request is
\* sent and the engine's join is never called.
C1_ValidationFailsFast ==
    \A c \in Clients :
        (/\ Made(c)
         /\ \/ Blank(agora[c].config.appId)
            \/ Blank(agora[c].config.channel)
            \/ ~appIdPattern(Trim(agora[c].config.appId)))
        => /\ agora[c].client = "null"
           /\ engine[c].calls = NoCalls
           /\ run[c].pc = "idle"
           /\ JoinCalled(c) => run[c].joinOutcome.status = "rejected"

C1_Witness ==
    \E c \in Clients :
        /\ Made(c)
        /\ ~Blank(agora[c].config.appId)
        /\ ~Blank(agora[c].config.channel)
        /\ ~appIdPattern(Trim(agora[c].config.appId))
        /\ run[c].joinOutcome = Outcome("rejected", MsgAppIdFormat)

\* C2 as claimed: with an empty channel, whatever the appId, join fails with
\* the channel-required error and makes no network call.
C2_ChannelRequiredWhateverAppId ==
    \A c \in Clients :
        (Made(c) /\ agora[c].config.channel = <<>> /\ JoinCalled(c))
        => /\ run[c].joinOutcome = Outcome("rejected", MsgChannelRequired)
           /\ engine[c].calls = NoCalls

\* C2 as amended: with an empty channel and an appId that is not blank, join
\* fails with the channel-required error and makes no network call.
C2_ChannelRequired ==
    \A c \in Clients :
        (/\ Made(c)
         /\ agora[c].config.channel = <<>>
         /\ ~Blank(agora[c].config.appId)
         /\ JoinCalled(c))
        => /\ run[c].joinOutcome = Outcome("rejected", MsgChannelRequired)
           /\ engine[c].calls = NoCalls

C2_Witness ==
    \E c \in Clients :
        /\ Made(c)
        /\ agora[c].config.channel = <<>>
        /\ ~appIdPattern(Trim(agora[c].config.appId))
        /\ ~Blank(agora[c].config.appId)
        /\ run[c].joinOutcome = Outcome("rejected", MsgChannelRequired)

\* the engine's join of object c is in progress or established
EngineJoinLive(c) ==
    \/ run[c].pc = "engineJoin"
    \/ engine[c].connectionState # "DISCONNECTED"

\* C3: at most one engine join is in progress or established per hook
\* instance, whatever callback the later joinChannel calls come through.
C3_AtMostOneJoin ==
    Cardinality({c \in Clients : run[c].caller = "hook" /\ EngineJoinLive(c)})
        <= 1

\* C4: once the component is unmounted no polling interval remains scheduled,
\* also when a join was in flight at the unmount and completes afterwards.
C4_NoPollAfterTeardown ==
    ~mounted => \A c \in Clients : ~interval[c]

\* C5: after leaveChannel resolved, a timer tick does not change remoteUsers
\* or any other state of the hook.
C5_NoRefreshAfterLeave ==
    [][left => ~(\E c \in Clients : Tick(c) /\ hook' # hook)]_vars

\* C6: a leave() that follows a resolved leave() makes no engine interaction
\* (no engine leave, no track touched) and raises no error.
C6_SecondLeaveIsNoOp ==
    [][\A c \in Clients :
          (/\ LeaveCalled(c)
           /\ run[c].log # <<>>
           /\ LastCall(c) = "leave"
           /\ run[c].leaveOutcome.status = "resolved")
          => /\ engine'[c] = engine[c]
             /\ run'[c].leaveOutcome.status = "resolved"]_vars

\* C7: when stopping or closing the local video track throws in leave(), the
\* local audio track is still stopped, closed and cleared and the engine's
\* leave is still called.
C7_TeardownStepsIndependent ==
    [][\A c \in Clients :
          (/\ LeaveCalled(c)
           /\ agora[c].client # "null"
           /\ agora[c].localVideoTrack # "null"
           /\ agora'[c].localVideoTrack # "null")
          => /\ agora'[c].localAudioTrack = "null"
             /\ engine'[c].audioTrackObj \in {"none", "closed"}
             /\ engine'[c].calls.leave = engine[c].calls.leave + 1]_vars

\* C8: once a leave() on a session that had a client has settled, normally or
\* by throwing, both local track references and the client handle are null.
C8_LeaveClearsEverything ==
    \A c \in Clients :
        (/\ run[c].log # <<>>
         /\ LastCall(c) = "leave"
         /\ run[c].leaveOutcome.status \in {"resolved", "rejected"}
         /\ engine[c].calls.createClient > 0)
        => /\ agora[c].localVideoTrack = "null"
           /\ agora[c].localAudioTrack = "null"
           /\ agora[c].client = "null"

\* C9: a local audio or video track is held only while the session is joined
\* as publisher; a joinAsPublisher that rejected retains no local track.
C9_TracksOnlyWhileJoinedPublisher ==
    \A c \in Clients :
        (agora[c].localAudioTrack # "null" \/ agora[c].localVideoTrack # "null")
        => /\ agora[c].isPublisher
           /\ engine[c].connectionState # "DISCONNECTED"
           /\ run[c].joinOutcome.status \in {"pending", "resolved"}

\* C10: when the engine's join succeeded and track creation or publish then
\* fails, joinAsPublisher still resolves and the session stays joined.
C10_PublishFailureKeepsJoin ==
    [][\A c \in Clients :
          (run[c].pc \in {"mic", "cam", "publish"} /\ run'[c].pc = "idle")
          => /\ run'[c].joinOutcome.status = "resolved"
             /\ engine'[c].connectionState # "DISCONNECTED"]_vars

\* C11: whenever joinAsAudience/joinAsPublisher has rejected, no partial state
\* is retained: the engine client is not joined to the channel and the
\* publisher flag is false.
C11_RejectedJoinKeepsNothing ==
    \A c \in Clients :
        (run[c].joinOutcome.status = "rejected" /\ LastCall(c) = "join")
        => /\ engine[c].connectionState = "DISCONNECTED"
           /\ ~agora[c].isPublisher

\* the generateToken() call made on object c has settled
TokenSettled(c) == run[c].tokenOutcome.status \in {"resolved", "rejected"}

\* the config of object c bears a certificate
HasCertificate(c) == agora[c].config.appCertificate # <<>>

\* C12: for a certificate-bearing config, when the first signing-endpoint
\* request fails (network error, non-2xx or error body) and the second one
\* returns token T1, generateToken resolves to T1.
C12_FallbackReturnsSecondToken ==
    \A c \in Clients :
        ( /\ HasCertificate(c)
          /\ TokenSettled(c)
          /\ env.server.kind # "ok"
          /\ env.backend = Resp("ok", T1) )
        => run[c].tokenOutcome = TokenOutcome("resolved", T1, "")

C12_Witness ==
    \E c \in Clients :
        /\ HasCertificate(c)
        /\ env.server.kind = "neterr"
        /\ env.backend = Resp("ok", T1)
        /\ engine[c].calls.get = 1
        /\ engine[c].calls.post = 1
        /\ run[c].tokenOutcome = TokenOutcome("resolved", T1, "")

\* C13 as claimed: with a certificate, generateToken issues the JSON POST
\* request first and the query-string GET request only after the POST failed.
C13_PostThenGet ==
    [][\A c \in Clients :
          engine'[c].calls.get > engine[c].calls.get
          => /\ run[c].pc = "tokPOST"
             /\ env.backend.kind # "ok"]_vars

\* C13 as amended: with a certificate, generateToken issues the query-string
\* GET request first and the JSON POST request only after the GET failed.
C13_GetThenPost ==
    [][\A c \in Clients :
          /\ engine'[c].calls.get > engine[c].calls.get
             => run[c].pc = "idle" /\ HasCertificate(c)
          /\ engine'[c].calls.post > engine[c].calls.post
             => /\ run[c].pc = "tokGET" /\ HasCertificate(c)
                /\ env.server.kind # "ok"]_vars

C13_Witness ==
    \E c \in Clients :
        /\ HasCertificate(c)
        /\ run[c].pc = "tokPOST"
        /\ engine[c].calls.get = 1
        /\ engine[c].calls.post = 1

\* C14: with a certificate, when both signing-endpoint strategies fail,
\* generateToken attempts the vendor demo-token server before it fails.
C14_VendorAfterBothFail ==
    \A c \in Clients :
        (HasCertificate(c) /\ run[c].tokenOutcome.status = "rejected")
        => engine[c].calls.vendor > 0

\* neither a certificate in the config of object c nor encryptedId and
\* encryptedSecret in the URL
NoCertificateNoUrl(c) ==
    /\ Made(c)
    /\ ~HasCertificate(c)
    /\ ~getEncryptFromUrl(env)

\* C15 as claimed: with no certificate and no encrypted URL parameters,
\* generateToken either resolves with a non-empty token of the vendor path or
\* rejects with 'No token generation method available...', and nothing else.
C15_VendorTokenOrNoMethod ==
    \A c \in Clients :
        (NoCertificateNoUrl(c) /\ TokenSettled(c))
        => \/ /\ run[c].tokenOutcome.status = "resolved"
              /\ run[c].tokenOutcome.token # <<>>
              /\ engine[c].calls.vendor > 0
           \/ run[c].tokenOutcome = TokenOutcome("rejected", <<>>, MsgNoMethod)

\* C15 as amended: generateToken may also reject with the error of the vendor
\* request (the fetch failed, or the response's code is not 0); it still
\* never resolves with an empty token.
C15_VendorTokenOrError ==
    \A c \in Clients :
        (NoCertificateNoUrl(c) /\ TokenSettled(c))
        => \/ /\ run[c].tokenOutcome.status = "resolved"
              /\ run[c].tokenOutcome.token # <<>>
              /\ engine[c].calls.vendor > 0
           \/ /\ run[c].tokenOutcome = TokenOutcome("rejected", <<>>, MsgNoMethod)
              /\ engine[c].calls.vendor > 0
                    => (env.vendor.kind = "ok" /\ env.vendor.token = <<>>)
           \/ /\ run[c].tokenOutcome.status = "rejected"
              /\ engine[c].calls.vendor > 0
              /\ \/ /\ env.vendor.kind = "neterr"
                    /\ run[c].tokenOutcome.message = MsgFetch
                 \/ /\ env.vendor.kind = "code1"
                    /\ run[c].tokenOutcome.message = MsgVendorCode

C15_Witness ==
    \E c \in Clients :
        /\ NoCertificateNoUrl(c)
        /\ env.localCert
        /\ env.vendor.kind = "ok"
        /\ env.vendor.token = <<>>
        /\ engine[c].calls.vendor = 1
        /\ run[c].tokenOutcome = TokenOutcome("rejected", <<>>, MsgNoMethod)

\* C16: whenever generateToken resolves, on any strategy and for any endpoint
\* response, the resolved value is a non-empty token string.
C16_ResolvedTokenNonEmpty ==
    \A c \in Clients :
        run[c].tokenOutcome.status = "resolved"
        => run[c].tokenOutcome.token # <<>>

\* the step is a call of joinAsAudience/joinAsPublisher on object c
JoinCallStep(c) ==
    /\ Len(run'[c].log) = Len(run[c].log) + 1
    /\ run'[c].log[Len(run'[c].log)] = "join"

\* C17: when no token is supplied and the token provider fails, join calls no
\* engine join and rejects with exactly 'Token generation failed. Please
\* check your App Certificate or server configuration.'
C17_TokenFailureMessage ==
    [][\A c \in Clients :
          ( \/ /\ run[c].pc \in {"tokGET", "tokPOST", "tokVendor"}
               /\ run[c].joinOutcome.status = "pending"
               /\ run'[c].pc = "idle"
            \/ /\ JoinCallStep(c)
               /\ ValidationError(agora[c].config) = ""
               /\ agora'[c].client # "null"
               /\ agora[c].config.token = <<>>
               /\ run'[c].pc = "idle" )
          => /\ run'[c].joinOutcome = Outcome("rejected", MsgTokenFailed)
             /\ engine'[c].calls.join = engine[c].calls.join]_vars

\* the message the claimed mapping gives for an engine join error
C18_Mapped(e) ==
    CASE e.code = "INVALID_TOKEN" ->
             "Invalid token. Please check your token or generate a new one."
      [] e.code = "CAN_NOT_GET_GATEWAY_SERVER" ->
             "Invalid App ID or network connection issue. Please verify your App ID is correct."
      [] e.code = "INVALID_VENDOR_KEY" ->
             "Invalid App ID. Please check your App ID from Agora Console."
      [] e.code \in {"TOKEN_EXPIRED", "DYNAMIC_KEY_TIMEOUT"} ->
             "Token has expired. Please generate a new token."
      [] OTHER ->
             "Failed to join channel: " \o
                 (CASE e.message # "" -> e.message
                    [] e.message = "" /\ e.code # "" -> e.code
                    [] OTHER -> "Unknown error")

\* C18: an engine join error is translated by a fixed mapping on its code,
\* every unrecognised code giving 'Failed to join channel: <message, else
\* code, else Unknown error>'.
C18_EngineErrorMapping ==
    \A c \in Clients :
        engine[c].joinError # <<>>
        => run[c].joinOutcome =
               Outcome("rejected", C18_Mapped(engine[c].joinError[1]))

C18_Witness ==
    \E c \in Clients :
        /\ engine[c].joinError = <<Err("DYNAMIC_KEY_TIMEOUT", "key timeout")>>
        /\ run[c].joinOutcome =
               Outcome("rejected",
                       "Token has expired. Please generate a new token.")

\* the step settles, as rejected, the join that joinChannel awaits on object c
HookJoinFails(c) ==
    /\ run'[c].caller = "hook"
    /\ run'[c].joinOutcome.status = "rejected"
    /\ run[c].joinOutcome.status # "rejected"

\* C19: when joinChannel returns after a validation, token or engine failure,
\* isJoining is false, isJoined is false, client is null, no polling interval
\* was started and error holds the failure message.
C19_FailedJoinReturnsToIdle ==
    [][\A c \in Clients :
          (mounted /\ HookJoinFails(c))
          => /\ ~hook'.isJoining
             /\ ~hook'.isJoined
             /\ hook'.client = NoClient
             /\ ~interval'[c]
             /\ hook'.error = run'[c].joinOutcome.message]_vars

\* the URL of the page carries appId, cert and channel, and the appId is valid
UrlComplete ==
    /\ page.url.appId # <<>>
    /\ page.url.appCertificate # <<>>
    /\ page.url.channel # <<>>
    /\ appIdPattern(page.url.appId)

\* C20: on a URL with appId, cert and channel present and a valid appId, the
\* page triggers exactly one automatic join: every join attempt uses the URL's
\* appId and channel, and none is started once one has been started.
C20_OneAutomaticJoin ==
    UrlComplete
    => /\ \A c \in Clients :
              Made(c) => /\ agora[c].config.appId = page.url.appId
                         /\ agora[c].config.channel = page.url.channel
       /\ Cardinality({c \in Clients : Made(c)}) <= 1

\* C21: once an AgoraClient is constructed, no step of generateToken, join,
\* the engine's and the endpoints' answers, channel events or leave changes
\* its config (appId, channel, token, uid, appCertificate); a vendor response
\* carrying another appid changes only the object agoraGetAppData was given.
C21_ConfigImmutable ==
    [][\A c \in Clients :
          agora[c].config.made => agora'[c].config = agora[c].config]_vars

\* a vendor response carrying another appid has been applied
C21_Witness ==
    \E c \in Clients :
        /\ agora[c].config.made
        /\ run[c].tokenConfig.appid = HexMix
        /\ agora[c].config.appId = Hex32
        /\ run[c].tokenOutcome.status = "resolved"

\* the three required fields of the request the endpoint last handled
Required ==
    IF api.method = "POST"
    THEN <<api.request.body.appId, api.request.body.appCertificate,
           api.request.body.channelName>>
    ELSE <<api.request.query.appId, api.request.query.appCertificate,
           api.request.query.channel>>

\* the endpoint has handled a request whose body or query it could read
Read == api.method = "GET" \/ (api.method = "POST" /\ ~api.request.malformed)

\* that request lacks a required field or has an App ID that is not 32 hex
\* characters
BadRequest ==
    \/ \E i \in 1..3 : ~Required[i].given \/ Required[i].v = <<>>
    \/ Len(Required[1].v) # 32
    \/ \E i \in 1..Len(Required[1].v) : Required[1].v[i] \notin HexChars

\* C22: a POST or GET request with appId, appCertificate or channelName
\* missing or empty, or with an appId that is not 32 hex characters, is
\* answered with status 400 without the signing primitive being called; a
\* POST whose appId has 31 hex characters gets the App ID format message.
C22_InvalidRequestIs400 ==
    /\ Read /\ BadRequest =>
           api.response.status = 400 /\ api.signed = <<>>
    /\ /\ api.method = "POST" /\ ~api.request.malformed
       /\ api.request.body.appId = Given(Rep("a", 31))
       /\ api.request.body.appCertificate.v # <<>>
       /\ api.request.body.channelName.v # <<>>
       => /\ api.response.status = 400
          /\ api.response.body =
                 [error |-> "Invalid App ID format. App ID should be a 32-character hexadecimal string."]

\* a POST with an App ID of 31 hex characters has been answered
C22_Witness ==
    /\ api.method = "POST" /\ ~api.request.malformed
    /\ api.request.body.appId = Given(Rep("a", 31))
    /\ api.request.body.appCertificate.v # <<>>
    /\ api.request.body.channelName.v # <<>>
    /\ api.response.status = 400

\* the role and the lifetime the request the endpoint last handled asks for
AskedRole ==
    IF api.method = "POST" THEN api.request.body.role
    ELSE api.request.query.role

AskedLifetime ==
    IF api.method = "POST" /\ api.request.body.expireTimeInSeconds.given
    THEN api.request.body.expireTimeInSeconds.v
    ELSE 3600

\* C23: for a request that passes validation the signing primitive is called
\* exactly once, as publisher exactly when the role given is 'publisher' and
\* as subscriber otherwise, with expiry now + expireTimeInSeconds for POST
\* (3600 when omitted) and now + 3600 for GET; a POST answered 200 carries
\* that expiry as expireTime.
C23_SignedOnceWithRoleAndExpiry ==
    Read /\ ~BadRequest =>
        /\ Len(api.signed) = 1
        /\ api.signed[1].role =
               IF AskedRole.given /\ AskedRole.v = "publisher"
               THEN "PUBLISHER" ELSE "SUBSCRIBER"
        /\ api.signed[1].privilegeExpire = api.at + AskedLifetime
        /\ api.signed[1].tokenExpire = api.at + AskedLifetime
        /\ api.method = "POST" /\ api.response.status = 200 =>
               api.response.body.expireTime = api.at + AskedLifetime

\* a POST asking for a publisher token of 60 seconds has been answered 200
\* after the clock advanced
C23_Witness ==
    /\ api.method = "POST" /\ ~api.request.malformed
    /\ api.response.status = 200
    /\ api.at > 0
    /\ api.request.body.expireTimeInSeconds = Given(60)
    /\ api.request.body.role = Given("publisher")
    /\ api.response.body.expireTime = api.at + 60

\* C24: every response of GET with a status other than 200 has a body of
\* shape {code: 1, message, error}.
C24_GetErrorBodyShape ==
    api.method = "GET" /\ api.response.status # 200 =>
        /\ DOMAIN api.response.body = {"code", "message", "error"}
        /\ api.response.body.code = 1

\* the text of the App ID field is 32 characters, all of them hex
ExactlyHex32 ==
    /\ Len(form.appId) = 32
    /\ \A i \in 1..Len(form.appId) : form.appId[i] \in HexChars

\* the text of the App ID field is 32 hex characters with nothing but white
\* space before and after them
PaddedHex32 ==
    \E i \in 1..Len(form.appId) :
        /\ i + 31 <= Len(form.appId)
        /\ \A k \in 1..Len(form.appId) :
               IF k < i \/ k > i + 31 THEN form.appId[k] \in WhiteSpace
               ELSE form.appId[k] \in HexChars

\* C25 as claimed: isValidAppId is true of the strings of exactly 32 hex
\* characters and false of every other string.
C25_ValidIffHex32 ==
    form.shown # "none" => (form.shown = "valid" <=> ExactlyHex32)

\* C25: isValidAppId is true of the strings that are 32 hex characters once
\* leading and trailing white space is removed, and false of every other
\* string.
C25_ValidIffTrimmedHex32 ==
    form.shown # "none" => (form.shown = "valid" <=> PaddedHex32)

\* 32 hex characters typed with white space around them are shown as valid
C25_Witness ==
    /\ form.shown = "valid"
    /\ Len(form.appId) > 32

\* the request sent by generateToken() on object c came back as a failure
Failed(c, request) ==
    IF request = "GET" THEN ~generateTokenFromServer(env.server).ok
    ELSE IF request = "POST" THEN ~generateTokenFromBackend(env.backend).ok
    ELSE ~agoraGetAppData(env.vendor).ok

\* C26: one invocation of generateToken sends each of the GET request, the
\* POST request and the vendor request at most once, and sends a request
\* after another one only when that one failed.
C26_NoRequestRepeated ==
    \A c \in Clients :
        LET sent == run[c].requests
        IN  /\ \A i, j \in 1..Len(sent) : sent[i] = sent[j] => i = j
            /\ \A i \in 2..Len(sent) : Failed(c, sent[i - 1])

\* a second invocation of generateToken has fallen back to its second request
C26_Witness ==
    \E c \in Clients :
        /\ Len(run[c].requests) = 2
        /\ engine[c].calls.get = 2
        /\ run[c].pc = "tokPOST"

\* C27: a join on an otherwise valid config whose given token fails the
\* shape check (not starting with 006 or 007, or no longer than 50
\* characters) only warns: engine join is called with exactly that token and
\* no token request is sent.
C27_BadTokenStillJoins ==
    [][\A c \in Clients :
          /\ JoinCallStep(c)
          /\ agora[c].config.token # <<>>
          /\ \/ Len(agora[c].config.token) <= 50
             \/ SubSeq(agora[c].config.token, 1, 3)
                    \notin { <<"0", "0", "6">>, <<"0", "0", "7">> }
          /\ ~Blank(agora[c].config.appId) /\ ~Blank(agora[c].config.channel)
          /\ appIdPattern(Trim(agora[c].config.appId))
          /\ (agora[c].client # "null" \/ env.window)
          => /\ run'[c].warned
             /\ run'[c].pc = "engineJoin"
             /\ engine'[c].calls.join = engine[c].calls.join + 1
             /\ engine'[c].joinArgs.token = agora[c].config.token
             /\ engine'[c].calls.get = engine[c].calls.get
             /\ engine'[c].calls.post = engine[c].calls.post
             /\ engine'[c].calls.vendor = engine[c].calls.vendor]_vars

\* engine join is in flight with the token 'bad' the config gave
C27_Witness ==
    \E c \in Clients :
        /\ agora[c].config.token = TokBad
        /\ run[c].warned
        /\ run[c].pc = "engineJoin"
        /\ engine[c].joinArgs.token = TokBad

\* C28: when the engine's leave throws, leave() rejects with that error and
\* the awaiting leaveChannel of a mounted hook stores its message in error,
\* changing neither isJoined, client nor remoteUsers; when the engine's leave
\* succeeds the publisher flag is false and the awaiting leaveChannel of a
\* mounted hook sets client null, isJoined false, remoteUsers empty and
\* error null.
C28_LeaveOutcomes ==
    [][\A c \in Clients :
          /\ EngineLeaveRejects(c) =>
                 /\ run'[c].leaveOutcome = Outcome("rejected", ErrLeave.message)
                 /\ run[c].caller = "hook" /\ mounted =>
                        /\ hook'.error = ErrLeave.message
                        /\ hook'.isJoined = hook.isJoined
                        /\ hook'.client = hook.client
                        /\ hook'.remoteUsers = hook.remoteUsers
          /\ EngineLeaveResolves(c) =>
                 /\ run'[c].leaveOutcome.status = "resolved"
                 /\ ~agora'[c].isPublisher
                 /\ run[c].caller = "hook" /\ mounted =>
                        hook' = [client |-> NoClient, isJoined |-> FALSE,
                                 isJoining |-> hook.isJoining,
                                 remoteUsers |-> {}, error |-> ""]]_vars

\* the engine's leave threw under a joined hook that shows a remote user, and
\* succeeded on a publisher session
C28_Witness ==
    /\ hook.client # NoClient /\ hook.isJoined /\ hook.remoteUsers # {}
    /\ hook.error = ErrLeave.message
    /\ run[hook.client].leaveOutcome.status = "rejected"
    /\ \E c \in Clients :
           /\ run[c].caller = "direct"
           /\ run[c].leaveOutcome.status = "resolved"
           /\ engine[c].calls.publish > 0
           /\ engine[c].calls.leave > 0

\* C29: a tick of the refresh interval changes nothing of the hook but
\* remoteUsers, and changes remoteUsers only when the engine's connection
\* state is CONNECTED at that moment.
C29_TickOnlyWhenConnected ==
    [][\A c \in Clients :
          Tick(c) =>
              /\ hook' = [hook EXCEPT !.remoteUsers = hook'.remoteUsers]
              /\ hook' # hook => engine[c].connectionState = "CONNECTED"]_vars

\* the interval is running while the connection is down and the hook shows
\* a user list that differs from the engine's
C29_Witness ==
    \E c \in Clients :
        /\ interval[c] /\ mounted
        /\ engine[c].connectionState # "CONNECTED"
        /\ hook.client = c /\ hook.isJoined
        /\ hook.remoteUsers # getRemoteUsers(Inst(c))

\* handler k runs for a video publish of user u
VideoHandler(k, u) ==
    /\ k \in DOMAIN stage.handlers
    /\ stage.handlers[k].media = "video"
    /\ stage.handlers[k].uid = u

\* handler k, for a video publish of user u, has subscribed, holds a video
\* track and has not played it yet
Placing(k, u) ==
    /\ VideoHandler(k, u)
    /\ stage.handlers[k].pc = "retrying"
    /\ stage.handlers[k].track

Played(k) == k \in DOMAIN stage.handlers /\ stage.handlers[k].plays = 1

\* C30: for a remote video publish the handler plays nothing before its
\* subscribe has resolved and never plays more than once; when it places the
\* video and the render slot of the uid is missing, it schedules a retry
\* instead of failing; and if from some time on the slot is there, a handler
\* that subscribed a user with a video track eventually plays it.
C30_PlacementRetriesUntilPlayed ==
    /\ [](\A k \in DOMAIN stage.handlers :
             /\ stage.handlers[k].plays <= 1
             /\ stage.handlers[k].pc \in {"subscribing", "failed"}
                    => stage.handlers[k].plays = 0)
    /\ [][\A k \in Handlers, u \in Uids :
             /\ VideoHandler(k, u)
             /\ SubscribeResolves(k) \/ RetryFires(k)
             /\ u \notin stage.slots
             => /\ stage'.handlers[k].pc = "retrying"
                /\ stage'.handlers[k].plays = stage.handlers[k].plays]_vars
    /\ \A k \in Handlers, u \in Uids :
           <>[](u \in stage.slots) => [](Placing(k, u) => <>Played(k))

\* a handler that found the slot missing has played its track on a retry
C30_Witness ==
    \E k \in DOMAIN stage.handlers :
        /\ stage.handlers[k].pc = "played" /\ stage.handlers[k].plays = 1
        /\ stage.handlers[k].retried

\* the session of handler k has been left, or the user of handler k has
\* unpublished video or left since the handler ran
Ended(k) ==
    \/ stage.handlers[k].over
    \/ /\ LastCall(stage.handlers[k].client) = "leave"
       /\ run[stage.handlers[k].client].leaveOutcome.status = "resolved"

\* C31: once leave() has completed, or the remote user has unpublished video
\* or left, no placement retry of a handler for that user is still scheduled,
\* and no retry that fires afterwards plays a track.
C31_RetryChainEnds ==
    /\ [](\A k \in DOMAIN stage.handlers :
             Ended(k) => stage.handlers[k].pc # "retrying")
    /\ [][\A k \in DOMAIN stage.handlers :
             Ended(k) /\ RetryFires(k)
                 => stage'.handlers[k].plays = stage.handlers[k].plays]_vars

\* C32: for every object that joined through the hook, the engine's leave is
\* called at most once, whatever leaveChannel, the effect cleanup and unmount
\* do.
C32_EngineLeaveAtMostOnce ==
    \A c \in Clients :
        (run[c].caller = "hook" /\ run[c].joinOutcome.status = "resolved")
        => engine[c].calls.leave <= 1

\* C33: whenever the hook's isJoined is true, the interval that refreshes
\* the remote users of its current client is scheduled.
C33_JoinedImpliesPolling ==
    hook.isJoined => (hook.client # NoClient /\ interval[hook.client])

====
